---- MODULE Spec2Model ----
\* Package store, package manager service and device-selection flow of ofs-next.
\* Strings that the code inspects (prefix tests, substring) are sequences of
\* one-character strings: the package name a is <<"a">>, the list entry -a is
\* <<"-", "a">>.  A JavaScript Set is a duplicate-free sequence in insertion order.
EXTENDS Integers, Sequences, FiniteSets, Bags, TLC

\* ---------------------------------------------------------------- bounds
NumNames == 3
MaxCfgLen == 2
MaxLoads == 2
MaxInFlight == 2
MaxRepoLoads == 2
MaxRecords == 3
MaxDeps == 2
MaxBlocks == 2
MaxEntries == 3
MaxAdbDeps == 2
MaxPackages == 2
MaxWords == 4
MaxIterations == 3
MaxBody == 4
MaxRest == 2
MaxBuilds == 2
MaxEvents == 4

\* ---------------------------------------------------------------- strings and sets
NameChars == <<"a", "b", "c", "d", "e", "f">>

Name(i) == <<NameChars[i]>>

PkgNames == {Name(i) : i \in 1..NumNames}

Range(s) == {s[i] : i \in 1..Len(s)}

SeqsUpTo(S, n) == UNION {[1..k -> S] : k \in 0..n}

\* Array.prototype.includes
includes(list, x) == x \in Range(list)

\* String.prototype.startsWith('-')
startsWithDash(str) == Len(str) > 0 /\ str[1] = "-"

\* String.prototype.substring(1)
substring1(str) == IF Len(str) = 0 THEN str ELSE Tail(str)

\* `-${pkg}`
dashPrefix(pkg) == <<"-">> \o pkg

\* Set.prototype.add: appends unless present
SetAdd(s, x) == IF x \in Range(s) THEN s ELSE Append(s, x)

\* Set.prototype.delete
SetDelete(s, x) == SelectSeq(s, LAMBDA e : e # x)

\* new Set(array): first occurrences, in order
RECURSIVE SetFrom(_)
SetFrom(list) ==
  IF Len(list) = 0 THEN <<>>
  ELSE SetAdd(SetFrom(SubSeq(list, 1, Len(list) - 1)), list[Len(list)])

\* Array.prototype.filter / map
RECURSIVE MapSeq(_, _)
MapSeq(F(_), list) ==
  IF Len(list) = 0 THEN <<>>
  ELSE <<F(Head(list))>> \o MapSeq(F, Tail(list))

\* Array.prototype.flatMap over a list of lists
RECURSIVE Flatten(_)
Flatten(lists) ==
  IF Len(lists) = 0 THEN <<>> ELSE Head(lists) \o Flatten(Tail(lists))

\* ---------------------------------------------------------------- profiles
NoProfile == [id |-> "none"]
NoDevice == [id |-> "none"]

DeviceTitles == {"A", "B"}

\* default_packages of the profiles.json answer for a device title
DefaultPackagesOf(title) ==
  IF title = "A" THEN <<Name(1), Name(2)>> ELSE <<Name(2)>>

NoKernel == [version |-> "none"]

\* linux_kernel of the profiles.json answer (absent in the answer for B)
KernelOf(title) ==
  IF title = "A" THEN [version |-> "6.6", release |-> "1", vermagic |-> "abc"]
  ELSE NoKernel

ProfileOf(title) ==
  [id |-> title, target |-> "t" \o title, arch_packages |-> "arch",
   default_packages |-> DefaultPackagesOf(title), linux_kernel |-> KernelOf(title)]

\* version strings, as token lists: 23.05.4, 23.05-SNAPSHOT, SNAPSHOT
Release == <<"23.05.4">>
BranchSnapshot == <<"23.05", "-SNAPSHOT">>
MainSnapshot == <<"SNAPSHOT">>

\* a ProcessedDevice of the device list built from the overview of version list
Device(title, list) ==
  [id |-> title, target |-> "t" \o title, title |-> title, list |-> list]

DeviceOf(title) == Device(title, Release)

\* the device titles in the overview of a version
TitlesOf(version) == IF version = Release THEN {"A", "B"} ELSE {"B"}

\* devices.value after loadDevices(version) succeeded
DevicesOf(version) == {Device(title, version) : title \in TitlesOf(version)}

\* ---------------------------------------------------------------- state
VARIABLES
  currentVersion,     \* firmware store: currentVersion
  selectedProfile,    \* firmware store: selectedProfile
  selectedDevice,     \* firmware store: selectedDevice
  selectedPackages,   \* package store: selectedPackages (Set)
  removedPackages,    \* package store: removedPackages (Set)
  feeds,              \* package store: feeds
  isLoading,          \* package store: isLoading
  error,              \* package store: error
  loads,              \* the calls of loadPackagesForDevice so far; loads[c].pending
                      \* counts the feed tasks of call c that have not settled
  devices,            \* firmware store: devices
  selectedModel,      \* FirmwareSelector: selectedModel
  requests,           \* bag of the getOverview and getProfiles calls not yet answered
  sessionDevice,      \* history: title of the device selected last
  repoFetches,        \* the loadRepositoryIndex calls whose fetch has not answered;
                      \* history: stale, the feed set was replaced since the call
  arg,                \* the input the calls of a service function are made on
  result,             \* the last call of a service function and what it returned
  buildStatus,        \* CustomBuild: buildStatus, Null or <<response>>
  buildError,         \* CustomBuild: buildError
  isBuilding,         \* CustomBuild: isBuilding
  pollInterval,       \* CustomBuild: pollInterval, Null or <<requestHash>>, the
                      \* interval timer with the hash its callback closes over
  buildMounted,       \* CustomBuild: the component is mounted
  asuCalls,           \* the requestBuild and getBuildStatus calls not yet answered
  emitted             \* the events the component has emitted, in order

\* the build state of the CustomBuild component
buildVars == <<buildStatus, buildError, isBuilding, pollInterval, buildMounted, asuCalls,
               emitted>>

vars == <<currentVersion, selectedProfile, selectedDevice, selectedPackages,
          removedPackages, feeds, isLoading, error, loads, devices, selectedModel,
          requests, sessionDevice, repoFetches, arg, result, buildVars>>

firmwareVars == <<currentVersion, selectedProfile, selectedDevice, devices,
                  selectedModel, requests, sessionDevice, arg, result, buildVars>>

\* null, and a ref or field that holds no value
Null == <<>>

\* the component is mounted and no build was requested
NoBuild ==
  /\ buildStatus = Null
  /\ buildError = ""
  /\ isBuilding = FALSE
  /\ pollInterval = Null
  /\ buildMounted = TRUE
  /\ asuCalls = <<>>
  /\ emitted = <<>>

\* no service function was called
NoCall == [fn |-> "none"]
feedVars == <<feeds, isLoading, error, loads, repoFetches>>

\* feeds.value is replaced: every repository fetch in flight started before
markStale(fetches) == [k \in 1..Len(fetches) |-> [fetches[k] EXCEPT !.stale = TRUE]]

\* ---------------------------------------------------------------- package manager service
image_url == "https://downloads.immortalwrt.org"

apk_versions == {MainSnapshot}

ARCHITECTURE_FEEDS == <<"base", "luci", "packages", "telephony">>

isSnapshot(version) ==
  version = MainSnapshot \/ (Len(version) > 0 /\ version[Len(version)] = "-SNAPSHOT")

isApkVersion(version) == version \in apk_versions

\* feed urls that end in Packages for every version
generateFeedUrlsOfText(version, architecture, target, kernelInfo) ==
  LET baseUrl == IF isSnapshot(version) THEN <<image_url, "/snapshots">>
                 ELSE <<image_url, "/releases/">> \o version
      archUrl == baseUrl \o <<"/packages/", architecture>>
      targetUrl == baseUrl \o <<"/targets/", target>>
  IN  [i \in 1..Len(ARCHITECTURE_FEEDS) |->
         archUrl \o <<"/", ARCHITECTURE_FEEDS[i], "/", "Packages">>]
      \o (IF target # "" THEN <<targetUrl \o <<"/packages/", "Packages">>>> ELSE <<>>)
      \o (IF target # "" /\ kernelInfo # NoKernel
          THEN <<targetUrl \o <<"/kmods/", kernelInfo.version, "-", kernelInfo.release,
                                 "-", kernelInfo.vermagic, "/", "Packages">>>>
          ELSE <<>>)

\* target = "" and kernelInfo = NoKernel stand for the omitted arguments
generateFeedUrls(version, architecture, target, kernelInfo) ==
  LET baseUrl == IF isSnapshot(version) THEN <<image_url, "/snapshots">>
                 ELSE <<image_url, "/releases/">> \o version
      fileName == IF isApkVersion(version) THEN "packages.adb" ELSE "Packages"
      archUrl == baseUrl \o <<"/packages/", architecture>>
      archUrls == [i \in 1..Len(ARCHITECTURE_FEEDS) |->
                     archUrl \o <<"/", ARCHITECTURE_FEEDS[i], "/", fileName>>]
      targetUrl == baseUrl \o <<"/targets/", target>>
  IN  archUrls
      \o (IF target # "" THEN <<targetUrl \o <<"/packages/", fileName>>>> ELSE <<>>)
      \o (IF target # "" /\ kernelInfo # NoKernel
          THEN <<targetUrl \o <<"/kmods/", kernelInfo.version, "-", kernelInfo.release,
                                 "-", kernelInfo.vermagic, "/", fileName>>>>
          ELSE <<>>)

Pkg(n, deps, src) == [name |-> n, depends |-> deps, source |-> src]

\* the records a repository serves for a feed: a and b depend on each other,
\* c depends on a and on itself
FeedContent(feedName) ==
  IF feedName = "base"
    THEN <<Pkg(Name(1), <<Name(2)>>, feedName), Pkg(Name(2), <<Name(1)>>, feedName)>>
  ELSE IF feedName = "luci"
    THEN <<Pkg(Name(3), <<Name(1), Name(3)>>, feedName)>>
  ELSE <<>>

\* packages.find(p => p.name === pkgName): index of the first match, 0 if none
RECURSIVE findIndex(_, _, _)
findIndex(packages, pkgName, i) ==
  IF i > Len(packages) THEN 0
  ELSE IF packages[i].name = pkgName THEN i
  ELSE findIndex(packages, pkgName, i + 1)

\* the closure addDependencies of getDependencyTree; st = [visited, dependencies]
RECURSIVE addDependencies(_, _, _)
RECURSIVE addDependenciesLoop(_, _, _, _)
addDependencies(st, pkgName, packages) ==
  IF pkgName \in st.visited THEN st
  ELSE LET st1 == [st EXCEPT !.visited = @ \cup {pkgName}]
           k == findIndex(packages, pkgName, 1)
       IN  IF k = 0 THEN st1
           ELSE addDependenciesLoop(st1, packages[k].depends, 1, packages)

addDependenciesLoop(st, depends, i, packages) ==
  IF i > Len(depends) THEN st
  ELSE LET dep == depends[i]
       IN  IF dep \in st.visited
             THEN addDependenciesLoop(st, depends, i + 1, packages)
             ELSE addDependenciesLoop(
                    addDependencies([st EXCEPT !.dependencies = Append(@, dep)],
                                    dep, packages),
                    depends, i + 1, packages)

getDependencyTree(packageName, packages) ==
  addDependencies([visited |-> {}, dependencies |-> <<>>], packageName,
                  packages).dependencies

pkgName(p) == p.name

getDependentsOf(packageName, packages) ==
  MapSeq(pkgName, SelectSeq(packages, LAMBDA p : includes(p.depends, packageName)))

\* ---------------------------------------------------------------- package store: computed
Undefined == "undefined"

feedPackages(feed) == feed.packages

allPackages == Flatten(MapSeq(feedPackages, feeds))

totalPackages == Len(allPackages)

defaultPackages ==
  IF selectedProfile = NoProfile THEN <<>> ELSE selectedProfile.default_packages

isPackageInDefaults(packageName) == includes(defaultPackages, packageName)

\* the computed buildPackagesList, for given contents of the two Sets
buildListOf(sel, rem) ==
  SelectSeq(defaultPackages, LAMBDA pkg : ~ includes(rem, pkg))
  \o SelectSeq(sel, LAMBDA pkg : ~ includes(defaultPackages, pkg))
  \o MapSeq(dashPrefix, SelectSeq(rem, LAMBDA pkg : includes(defaultPackages, pkg)))

buildPackagesList == buildListOf(selectedPackages, removedPackages)

\* ---------------------------------------------------------------- package store: selection
\* The mutations as functions of the two Sets, S = [sel |-> selectedPackages,
\* rem |-> removedPackages].
Sel == [sel |-> selectedPackages, rem |-> removedPackages]

addPackage(S, packageName) == [S EXCEPT !.sel = SetAdd(@, packageName)]

removePackage(S, packageName) == [S EXCEPT !.sel = SetDelete(@, packageName)]

addRemovedPackage(S, packageName) ==
  IF isPackageInDefaults(packageName)
    THEN [sel |-> SetDelete(S.sel, packageName), rem |-> SetAdd(S.rem, packageName)]
    ELSE S

removeRemovedPackage(S, packageName) == [S EXCEPT !.rem = SetDelete(@, packageName)]

togglePackage(S, packageName) ==
  IF isPackageInDefaults(packageName)
    THEN IF includes(S.rem, packageName)
           THEN removeRemovedPackage(S, packageName)
           ELSE addRemovedPackage(S, packageName)
    ELSE IF includes(S.sel, packageName)
           THEN removePackage(S, packageName)
           ELSE addPackage(S, packageName)

clearSelectedPackages(S) == [S EXCEPT !.sel = <<>>]

clearRemovedPackages(S) == [S EXCEPT !.rem = <<>>]

setSelectedPackages(S, packages) ==
  [sel |-> SetFrom(SelectSeq(packages,
             LAMBDA pkg : ~ startsWithDash(pkg) /\ ~ includes(defaultPackages, pkg))),
   rem |-> SetFrom(MapSeq(substring1, SelectSeq(packages, startsWithDash)))]

\* a restore that forgets the removed names of the snapshot
setPackageConfigurationAddedOnly(S, config) ==
  [sel |-> SetFrom(config.addedPackages), rem |-> S.rem]

setPackageConfiguration(S, config) ==
  [sel |-> SetFrom(config.addedPackages), rem |-> SetFrom(config.removedPackages)]

getPackageConfiguration(S) == [addedPackages |-> S.sel, removedPackages |-> S.rem]

\* dependencies.forEach(dep => addPackage(dep)) / dependents.forEach(dep => removePackage(dep))
RECURSIVE forEach(_, _, _)
forEach(F(_, _), S, list) ==
  IF Len(list) = 0 THEN S ELSE forEach(F, F(S, Head(list)), Tail(list))

addPackageWithDependencies(S, packageName) ==
  forEach(addPackage, addPackage(S, packageName),
          getDependencyTree(packageName, allPackages))

removePackageWithDependents(S, packageName) ==
  removePackage(forEach(removePackage, S, getDependentsOf(packageName, allPackages)),
                packageName)

isPackageSelected(S, packageName) ==
  IF isPackageInDefaults(packageName)
    THEN ~ includes(S.rem, packageName)
    ELSE includes(S.sel, packageName)

\* a status read from the two sets alone
getPackageStatusOfSets(S, packageName) ==
  IF includes(S.rem, packageName) THEN "removed"
  ELSE IF includes(S.sel, packageName) THEN "selected"
  ELSE IF isPackageInDefaults(packageName) THEN "default" ELSE "none"

getPackageStatus(S, packageName) ==
  IF isPackageInDefaults(packageName)
    THEN IF includes(S.rem, packageName) THEN "removed" ELSE "default"
    ELSE IF includes(S.sel, packageName) THEN "selected" ELSE "none"

\* ---------------------------------------------------------------- inputs
\* the strings a caller can put in a package list: names and "-"-prefixed names
ListEntries == PkgNames \cup {dashPrefix(n) : n \in PkgNames}

PackageLists == SeqsUpTo(ListEntries, MaxCfgLen)

NameLists == SeqsUpTo(PkgNames, MaxCfgLen)

Configurations == [addedPackages : NameLists, removedPackages : NameLists]

\* ---------------------------------------------------------------- actions: selection
SetSel(S) == selectedPackages' = S.sel /\ removedPackages' = S.rem

AddPackage ==
  \E n \in PkgNames :
    /\ SetSel(addPackage(Sel, n))
    /\ UNCHANGED <<firmwareVars, feedVars>>

RemovePackage ==
  \E n \in PkgNames :
    /\ SetSel(removePackage(Sel, n))
    /\ UNCHANGED <<firmwareVars, feedVars>>

TogglePackage ==
  \E n \in PkgNames :
    /\ SetSel(togglePackage(Sel, n))
    /\ UNCHANGED <<firmwareVars, feedVars>>

AddRemovedPackage ==
  \E n \in PkgNames :
    /\ SetSel(addRemovedPackage(Sel, n))
    /\ UNCHANGED <<firmwareVars, feedVars>>

RemoveRemovedPackage ==
  \E n \in PkgNames :
    /\ SetSel(removeRemovedPackage(Sel, n))
    /\ UNCHANGED <<firmwareVars, feedVars>>

ClearSelectedPackages ==
  /\ SetSel(clearSelectedPackages(Sel))
  /\ UNCHANGED <<firmwareVars, feedVars>>

ClearRemovedPackages ==
  /\ SetSel(clearRemovedPackages(Sel))
  /\ UNCHANGED <<firmwareVars, feedVars>>

SetSelectedPackages ==
  \E packages \in PackageLists :
    /\ SetSel(setSelectedPackages(Sel, packages))
    /\ UNCHANGED <<firmwareVars, feedVars>>

SetPackageConfiguration ==
  \E config \in Configurations :
    /\ SetSel(setPackageConfiguration(Sel, config))
    /\ UNCHANGED <<firmwareVars, feedVars>>

AddPackageWithDependencies ==
  \E n \in PkgNames :
    /\ SetSel(addPackageWithDependencies(Sel, n))
    /\ UNCHANGED <<firmwareVars, feedVars>>

RemovePackageWithDependents ==
  \E n \in PkgNames :
    /\ SetSel(removePackageWithDependents(Sel, n))
    /\ UNCHANGED <<firmwareVars, feedVars>>

\* clearAllPackages also drops the loaded feeds and the store error
ClearAllPackages ==
  /\ selectedPackages' = <<>>
  /\ removedPackages' = <<>>
  /\ feeds' = <<>>
  /\ error' = ""
  /\ repoFetches' = markStale(repoFetches)
  /\ UNCHANGED <<firmwareVars, isLoading, loads>>

\* ---------------------------------------------------------------- specification: selection
\* A device is selected, its profile is the active profile, and its feeds are
\* either not loaded or all loaded.
LoadedFeed(name, url, obj) ==
  [name |-> name, url |-> url, packages |-> FeedContent(name), isLoading |-> FALSE,
   error |-> Undefined, obj |-> obj]

feedNamesFor(target, kernelInfo) ==
  ARCHITECTURE_FEEDS
  \o (IF target # "" THEN <<"target-packages">> ELSE <<>>)
  \o (IF target # "" /\ kernelInfo # NoKernel THEN <<"kmods">> ELSE <<>>)

LoadedFeedsFor(version, profile) ==
  LET names == feedNamesFor(profile.target, profile.linux_kernel)
      urls == generateFeedUrls(version, profile.arch_packages, profile.target,
                               profile.linux_kernel)
  IN  [i \in 1..Len(names) |-> LoadedFeed(names[i], urls[i], <<0, i>>)]

InitSelection ==
  /\ currentVersion = Release
  /\ \E title \in DeviceTitles :
       /\ selectedDevice = DeviceOf(title)
       /\ selectedProfile = ProfileOf(title)
       /\ feeds \in {<<>>, LoadedFeedsFor(Release, ProfileOf(title))}
       /\ selectedModel = title
       /\ sessionDevice = title
  /\ devices = DevicesOf(Release)
  /\ requests = EmptyBag
  /\ NoBuild
  /\ selectedPackages = <<>>
  /\ removedPackages = <<>>
  /\ isLoading = FALSE
  /\ error = ""
  /\ loads = <<>>
  /\ repoFetches = <<>>
  /\ arg = <<>>
  /\ result = NoCall

NextSelection ==
  \/ AddPackage
  \/ RemovePackage
  \/ TogglePackage
  \/ AddRemovedPackage
  \/ RemoveRemovedPackage
  \/ ClearSelectedPackages
  \/ ClearRemovedPackages
  \/ SetSelectedPackages
  \/ SetPackageConfiguration
  \/ AddPackageWithDependencies
  \/ RemovePackageWithDependents
  \/ ClearAllPackages

SpecSelection == InitSelection /\ [][NextSelection]_vars

\* ---------------------------------------------------------------- package store: feeds
\* The package store as one record, for the handlers that call several store
\* functions in one step.
Store ==
  [sel |-> selectedPackages, rem |-> removedPackages, feeds |-> feeds,
   isLoading |-> isLoading, error |-> error, loads |-> loads,
   repoFetches |-> repoFetches]

SetStore(P) ==
  /\ selectedPackages' = P.sel
  /\ removedPackages' = P.rem
  /\ feeds' = P.feeds
  /\ isLoading' = P.isLoading
  /\ error' = P.error
  /\ loads' = P.loads
  /\ repoFetches' = P.repoFetches

clearAllPackages(P) ==
  [P EXCEPT !.sel = <<>>, !.rem = <<>>, !.feeds = <<>>, !.error = "",
            !.repoFetches = markStale(@)]

\* the descriptor a call creates for each feed; obj is the identity of the object,
\* which the feed task of that call keeps a reference to
LoadingFeed(name, url, obj) ==
  [name |-> name, url |-> url, packages |-> <<>>, isLoading |-> TRUE,
   error |-> Undefined, obj |-> obj]

\* loadPackagesForDevice up to its await: the flags, the new feed set, and one
\* task per feed.  profile is firmwareStore.selectedProfile at the call.
loadPackagesForDevice(P, profile, version, architecture, target) ==
  LET kernelInfo == IF profile = NoProfile THEN NoKernel ELSE profile.linux_kernel
      feedUrls == generateFeedUrls(version, architecture, target, kernelInfo)
      feedNames == feedNamesFor(target, kernelInfo)
      c == Len(P.loads) + 1
      all == [i \in 1..Len(feedNames) |->
                LoadingFeed(feedNames[i],
                            IF i <= Len(feedUrls) THEN feedUrls[i] ELSE <<>>,
                            <<c, i>>)]
      kept == SelectSeq(all, LAMBDA feed : feed.url # <<>>)
  IN  [P EXCEPT !.isLoading = TRUE,
                !.error = "",
                !.feeds = kept,
                !.loads = Append(@, [pending |-> Len(kept)]),
                !.repoFetches = markStale(@)]

\* the try branch of a feed task: fetchFeedPackages resolved with packages
feedLoaded(feed, packages) ==
  [feed EXCEPT !.packages = packages, !.isLoading = FALSE]

\* a catch branch that records the error and leaves the feed loading
feedFailedStillLoading(feed, message) ==
  [feed EXCEPT !.error = message]

\* the catch branch of a feed task: fetchFeedPackages threw
feedFailed(feed, message) ==
  [feed EXCEPT !.error = message, !.isLoading = FALSE]

\* a task writes to the descriptor it holds, wherever that object now is
updateFeed(fs, obj, F(_)) ==
  [i \in 1..Len(fs) |-> IF fs[i].obj = obj THEN F(fs[i]) ELSE fs[i]]

\* after a task of call c settles: Promise.all resolves once none is pending,
\* and the finally block clears the store's flag
settle(P, c) ==
  LET pending == P.loads[c].pending - 1
  IN  [P EXCEPT !.loads[c].pending = pending,
                !.isLoading = IF pending = 0 THEN FALSE ELSE @]

taskSucceeded(P, obj) ==
  LET ok(feed) == feedLoaded(feed, FeedContent(feed.name))
  IN  settle([P EXCEPT !.feeds = updateFeed(@, obj, ok)], obj[1])

taskFailed(P, obj) ==
  LET failed(feed) == feedFailed(feed, "load failed")
  IN  settle([P EXCEPT !.feeds = updateFeed(@, obj, failed)], obj[1])

\* the descriptors of call c are no longer the store's feeds
Detached(c) == \A k \in 1..Len(feeds) : feeds[k].obj[1] # c

\* ---------------------------------------------------------------- actions: feeds
\* PackageManager.openAddDialog -> loadPackagesForCurrentDevice
OpenAddDialog ==
  /\ Len(loads) < MaxLoads
  /\ totalPackages = 0
  /\ selectedDevice # NoDevice
  /\ currentVersion # <<>>
  /\ selectedProfile # NoProfile
  /\ SetStore(loadPackagesForDevice(Store, selectedProfile, currentVersion,
                                    selectedProfile.arch_packages, selectedDevice.target))
  /\ UNCHANGED firmwareVars

\* the fetch of a feed of the store answers and the index parses; a feed of the
\* store is loading exactly while its task has not settled
FeedFetchOk ==
  \E k \in 1..Len(feeds) :
    /\ feeds[k].isLoading
    /\ SetStore(taskSucceeded(Store, feeds[k].obj))
    /\ UNCHANGED firmwareVars

\* the fetch of a feed of the store fails, or its index does not parse
FeedFetchFail ==
  \E k \in 1..Len(feeds) :
    /\ feeds[k].isLoading
    /\ SetStore(taskFailed(Store, feeds[k].obj))
    /\ UNCHANGED firmwareVars

\* a task of an earlier call settles, either way, after the store's feeds were
\* replaced or cleared: it writes to a descriptor the store no longer holds
DetachedTaskSettles ==
  \E c \in 1..Len(loads) :
    /\ Detached(c)
    /\ loads[c].pending > 0
    /\ SetStore(settle(Store, c))
    /\ UNCHANGED firmwareVars

\* ---------------------------------------------------------------- specification: feed loading
\* Device B is selected and nothing is loaded yet; the user opens the add dialog
\* (again, while nothing has arrived), feeds answer in any order, and the
\* store is cleared at any time.
InitLoad ==
  /\ currentVersion = Release
  /\ selectedDevice = DeviceOf("B")
  /\ selectedProfile = ProfileOf("B")
  /\ devices = DevicesOf(Release)
  /\ selectedModel = "B"
  /\ requests = EmptyBag
  /\ NoBuild
  /\ sessionDevice = "B"
  /\ selectedPackages = <<>>
  /\ removedPackages = <<>>
  /\ feeds = <<>>
  /\ isLoading = FALSE
  /\ error = ""
  /\ loads = <<>>
  /\ repoFetches = <<>>
  /\ arg = <<>>
  /\ result = NoCall

NextLoad ==
  \/ OpenAddDialog
  \/ FeedFetchOk
  \/ FeedFetchFail
  \/ DetachedTaskSettles
  \/ ClearAllPackages

SpecLoad == InitLoad /\ [][NextLoad]_vars

\* ---------------------------------------------------------------- device and version selection
\* The firmware store, the FirmwareSelector's selectedModel and the package
\* store as one record, for the handlers and watchers that run in one step.
World ==
  [currentVersion |-> currentVersion, selectedProfile |-> selectedProfile,
   selectedDevice |-> selectedDevice, devices |-> devices,
   selectedModel |-> selectedModel, requests |-> requests, store |-> Store]

Versions == {Release, MainSnapshot}

ProfilesRequest(device, version) ==
  [kind |-> "profiles", device |-> device, version |-> version, currentModel |-> ""]

OverviewRequest(version, currentModel) ==
  [kind |-> "overview", device |-> NoDevice, version |-> version,
   currentModel |-> currentModel]

send(W, request) == [W EXCEPT !.requests = @ (+) SetToBag({request})]

answered(W, request) == [W EXCEPT !.requests = @ (-) SetToBag({request})]

\* devices.value[title]
deviceByTitle(devs, title) ==
  IF \E d \in devs : d.title = title
  THEN CHOOSE d \in devs : d.title = title
  ELSE NoDevice

\* firmware.selectDevice up to its await
selectDevice(W, title) ==
  LET device == deviceByTitle(W.devices, title)
  IN  IF device = NoDevice
      THEN [W EXCEPT !.selectedDevice = NoDevice, !.selectedProfile = NoProfile]
      ELSE send(W, ProfilesRequest(device, W.currentVersion))

\* FirmwareSelector.loadProfileForModel up to the await inside selectDevice
loadProfileForModel(W, model) ==
  IF model = "" THEN W ELSE selectDevice(W, model)

\* the rest of loadProfileForModel, after selectDevice returned
loadProfileForModelResumed(W) ==
  IF W.selectedProfile # NoProfile /\ W.currentVersion # <<>> /\ W.selectedDevice # NoDevice
  THEN [W EXCEPT !.store = loadPackagesForDevice(@, W.selectedProfile, W.currentVersion,
                                                 W.selectedProfile.arch_packages,
                                                 W.selectedDevice.target)]
  ELSE W

\* firmware.changeVersion up to the await inside loadDevices
changeVersion(W, version, currentModel) ==
  send([W EXCEPT !.currentVersion = version,
                 !.selectedDevice = NoDevice,
                 !.selectedProfile = NoProfile],
       OverviewRequest(version, currentModel))

\* watch(selectedModel) of FirmwareSelector
onSelectedModel(W, newModel, oldModel) ==
  IF newModel # ""
  THEN loadProfileForModel(
         IF oldModel # "" /\ oldModel # newModel
         THEN [W EXCEPT !.store = clearAllPackages(@)]
         ELSE W,
         newModel)
  ELSE [W EXCEPT !.selectedDevice = NoDevice, !.selectedProfile = NoProfile]

\* watch(() => firmware.selectedDevice) of FirmwareSelector
onSelectedDevice(W) ==
  LET newTitle == IF W.selectedDevice = NoDevice THEN "" ELSE W.selectedDevice.title
  IN  IF W.selectedModel # newTitle THEN [W EXCEPT !.selectedModel = newTitle] ELSE W

\* the watchers of FirmwareSelector, run until none is triggered; oldDevice and
\* oldModel are the values the watchers saw last
RECURSIVE flushSelector(_, _, _)
flushSelector(W, oldDevice, oldModel) ==
  IF W.selectedDevice # oldDevice
  THEN flushSelector(onSelectedDevice(W), W.selectedDevice, oldModel)
  ELSE IF W.selectedModel # oldModel
       THEN flushSelector(onSelectedModel(W, W.selectedModel, oldModel), oldDevice,
                          W.selectedModel)
       ELSE W

\* DeviceDetails, and CustomBuild in it, are rendered
mounted(W) == W.selectedDevice # NoDevice /\ W.selectedProfile # NoProfile

\* CustomBuild.resetCustomConfiguration, as far as the package store goes
resetCustomConfiguration(W) == [W EXCEPT !.store = clearAllPackages(@)]

\* The watchers of CustomBuild on selectedDevice and currentVersion.  Before is
\* the state the watchers saw last.  When the same flush unmounts CustomBuild,
\* whether its queued watchers still run depends on the Vue release: fire.
flushCustomBuild(Before, W, fire) ==
  LET triggered ==
        \/ Before.selectedDevice # NoDevice /\ W.selectedDevice # Before.selectedDevice
        \/ Before.currentVersion # <<>> /\ W.currentVersion # Before.currentVersion
  IN  IF mounted(Before) /\ triggered /\ (mounted(W) \/ fire)
      THEN resetCustomConfiguration(W)
      ELSE W

flush(Before, W, fire) ==
  flushCustomBuild(Before,
                   flushSelector(W, Before.selectedDevice, Before.selectedModel),
                   fire)

SetWorld(W) ==
  /\ currentVersion' = W.currentVersion
  /\ selectedProfile' = W.selectedProfile
  /\ selectedDevice' = W.selectedDevice
  /\ devices' = W.devices
  /\ selectedModel' = W.selectedModel
  /\ requests' = W.requests
  /\ SetStore(W.store)
  /\ sessionDevice' = IF W.selectedDevice # NoDevice THEN W.selectedDevice.title
                      ELSE sessionDevice
  /\ UNCHANGED <<arg, result, buildVars>>

\* ---------------------------------------------------------------- actions: device and version
\* the v-select of FirmwareSelector sets firmware.currentVersion; the watcher
\* on currentVersion remembers selectedModel and calls changeVersion
UserSelectVersion ==
  \E version \in Versions : \E fire \in BOOLEAN :
    /\ BagCardinality(requests) < MaxInFlight
    /\ version # currentVersion
    /\ SetWorld(flush(World, changeVersion(World, version, selectedModel), fire))

\* DeviceSelector sets selectedModel to a title of the device list
UserSelectModel ==
  \E d \in devices : \E fire \in BOOLEAN :
    /\ BagCardinality(requests) < MaxInFlight
    /\ d.title # selectedModel
    /\ SetWorld(flush(World, [World EXCEPT !.selectedModel = d.title], fire))

\* the load a step starts stays within the bound on calls
WithinLoads(W) == W.store.loads # loads => Len(loads) < MaxLoads

\* getProfiles answers with the profile of the device: the rest of selectDevice,
\* the watchers, then the rest of loadProfileForModel
ProfilesAnswer ==
  \E r \in BagToSet(requests) : \E fire \in BOOLEAN :
    /\ r.kind = "profiles"
    /\ r.device.title \in TitlesOf(r.version)
    /\ LET W == [answered(World, r) EXCEPT
                   !.selectedProfile = ProfileOf(r.device.title),
                   !.selectedDevice = r.device]
           Resumed == loadProfileForModelResumed(flush(World, W, fire))
       IN  WithinLoads(Resumed) /\ SetWorld(Resumed)

\* getProfiles fails, or its answer has no profile of the device: selectDevice
\* sets nothing, and loadProfileForModel goes on
ProfilesFailure ==
  \E r \in BagToSet(requests) :
    /\ r.kind = "profiles"
    /\ LET Resumed == loadProfileForModelResumed(answered(World, r))
       IN  WithinLoads(Resumed) /\ SetWorld(Resumed)

\* the rest of the watcher on currentVersion, after changeVersion returned
versionWatcherResumed(W, currentModel) ==
  IF currentModel # ""
  THEN loadProfileForModel([W EXCEPT !.store = clearAllPackages(@)], currentModel)
  ELSE W

\* getOverview answers: the rest of loadDevices, then of the watcher
OverviewAnswer ==
  \E r \in BagToSet(requests) : \E fire \in BOOLEAN :
    /\ r.kind = "overview"
    /\ LET W == [answered(World, r) EXCEPT !.devices = DevicesOf(r.version)]
       IN  SetWorld(flush(World, versionWatcherResumed(W, r.currentModel), fire))

\* getOverview fails: loadDevices catches, and the watcher goes on
OverviewFailure ==
  \E r \in BagToSet(requests) : \E fire \in BOOLEAN :
    /\ r.kind = "overview"
    /\ SetWorld(flush(World, versionWatcherResumed(answered(World, r), r.currentModel),
                      fire))

\* the add dialog of PackageManager toggles a package of the loaded feeds
DialogTogglePackage ==
  \E k \in 1..Len(allPackages) :
    /\ mounted(World)
    /\ SetSel(togglePackage(Sel, allPackages[k].name))
    /\ UNCHANGED <<firmwareVars, feedVars>>

\* ---------------------------------------------------------------- specification: device sessions
\* Device A of the release is selected and its feeds are loaded.  The user
\* toggles packages of the loaded feeds and picks devices and versions, and the
\* server answers the overview and profile requests in any order.  The feed
\* requests of the sessions that follow stay unanswered here; SpecLoad has
\* their answers.
InitDevice ==
  /\ currentVersion = Release
  /\ selectedDevice = Device("A", Release)
  /\ selectedProfile = ProfileOf("A")
  /\ devices = DevicesOf(Release)
  /\ selectedModel = "A"
  /\ requests = EmptyBag
  /\ NoBuild
  /\ sessionDevice = "A"
  /\ selectedPackages = <<>>
  /\ removedPackages = <<>>
  /\ feeds = LoadedFeedsFor(Release, ProfileOf("A"))
  /\ isLoading = FALSE
  /\ error = ""
  /\ loads = <<>>
  /\ repoFetches = <<>>
  /\ arg = <<>>
  /\ result = NoCall

NextDevice ==
  \/ UserSelectVersion
  \/ UserSelectModel
  \/ ProfilesAnswer
  \/ ProfilesFailure
  \/ OverviewAnswer
  \/ OverviewFailure
  \/ DialogTogglePackage

SpecDevice == InitDevice /\ [][NextDevice]_vars

\* ---------------------------------------------------------------- custom repositories
\* the names a user gives a repository of CustomBuild; the second is also the
\* name of a feed
RepoNames == {"mine", "base"}

\* the records the index of a custom repository holds
RepoContent(repoName) == <<Pkg(<<"r">>, <<>>, repoName)>>

\* feeds.value.findIndex(feed => feed.name === feedName), 0 if none
feedIndex(fs, feedName) ==
  IF \E k \in 1..Len(fs) : fs[k].name = feedName
  THEN CHOOSE k \in 1..Len(fs) :
         fs[k].name = feedName /\ \A j \in 1..(k - 1) : fs[j].name # feedName
  ELSE 0

\* a custom feed has no error field and an empty url; obj tells it from the
\* descriptors of loadPackagesForDevice
CustomFeed(feedName, packages) ==
  [name |-> feedName, url |-> <<>>, packages |-> packages, isLoading |-> FALSE,
   error |-> Undefined, obj |-> <<0, 0>>]

addCustomFeedPackages(P, feedName, packages) ==
  LET existingFeedIndex == feedIndex(P.feeds, feedName)
  IN  IF existingFeedIndex > 0
      THEN [P EXCEPT !.feeds[existingFeedIndex].packages = packages,
                     !.feeds[existingFeedIndex].isLoading = FALSE,
                     !.feeds[existingFeedIndex].error = Undefined]
      ELSE [P EXCEPT !.feeds = Append(@, CustomFeed(feedName, packages))]

removeAt(list, k) == SubSeq(list, 1, k - 1) \o SubSeq(list, k + 1, Len(list))

\* loadRepositoryIndex up to its await: the watcher on repositories calls it
\* once a repository has a name and a url
LoadRepositoryIndex ==
  \E repoName \in RepoNames :
    /\ Len(repoFetches) < MaxRepoLoads
    /\ mounted(World)
    /\ repoFetches' = Append(repoFetches, [name |-> repoName, stale |-> FALSE])
    /\ UNCHANGED <<firmwareVars, selectedPackages, removedPackages, feeds, isLoading,
                   error, loads>>

\* the index of a repository answers and parses: the rest of loadRepositoryIndex
RepositoryAnswer ==
  \E k \in 1..Len(repoFetches) :
    LET repo == repoFetches[k]
        Answered == [Store EXCEPT !.repoFetches = removeAt(@, k)]
    IN  /\ SetStore(addCustomFeedPackages(Answered, repo.name, RepoContent(repo.name)))
        /\ UNCHANGED firmwareVars

\* the fetch of the index fails: only repo.error is set
RepositoryFailure ==
  \E k \in 1..Len(repoFetches) :
    /\ repoFetches' = removeAt(repoFetches, k)
    /\ UNCHANGED <<firmwareVars, selectedPackages, removedPackages, feeds, isLoading,
                   error, loads>>

\* ---------------------------------------------------------------- specification: custom repositories
\* Device B is selected.  The user adds repositories to CustomBuild and opens
\* the add dialog, the store is cleared, and feeds and repository indexes
\* answer in any order.
NextRepo ==
  \/ OpenAddDialog
  \/ FeedFetchOk
  \/ DetachedTaskSettles
  \/ ClearAllPackages
  \/ LoadRepositoryIndex
  \/ RepositoryAnswer
  \/ RepositoryFailure

SpecRepo == InitLoad /\ [][NextRepo]_vars

\* ---------------------------------------------------------------- specification: snapshots
\* The configuration collaborator restores snapshots over two names, with
\* repetitions, and the user toggles packages in between.
SnapshotNames == {Name(1), Name(2)}

Snapshots ==
  [addedPackages : SeqsUpTo(SnapshotNames, MaxCfgLen),
   removedPackages : SeqsUpTo(SnapshotNames, MaxCfgLen)]

\* App.applyAppState -> packageStore.setPackageConfiguration
RestoreSnapshot ==
  \E c \in Snapshots :
    /\ SetSel(setPackageConfiguration(Sel, c))
    /\ UNCHANGED <<firmwareVars, feedVars>>

NextSnapshot ==
  \/ RestoreSnapshot
  \/ TogglePackage

SpecSnapshot == InitSelection /\ [][NextSnapshot]_vars

\* ---------------------------------------------------------------- specification: dependency graph
\* the state apart from arg and result
storeVars == <<currentVersion, selectedProfile, selectedDevice, devices, selectedModel,
               requests, sessionDevice, selectedPackages, removedPackages, feeds,
               isLoading, error, loads, repoFetches, buildVars>>

\* nothing is selected or loaded
Idle ==
  /\ currentVersion = Release
  /\ selectedDevice = NoDevice
  /\ selectedProfile = NoProfile
  /\ devices = DevicesOf(Release)
  /\ selectedModel = ""
  /\ requests = EmptyBag
  /\ NoBuild
  /\ sessionDevice = ""
  /\ selectedPackages = <<>>
  /\ removedPackages = <<>>
  /\ feeds = <<>>
  /\ isLoading = FALSE
  /\ error = ""
  /\ loads = <<>>
  /\ repoFetches = <<>>

\* the dependency lists of records: names without repetition
DependsLists == {l \in SeqsUpTo(PkgNames, MaxDeps) : Cardinality(Range(l)) = Len(l)}

Records == {Pkg(n, deps, "") : n \in PkgNames, deps \in DependsLists}

\* allPackages of feeds that hold one record each: the k-th record is the one
\* of the k-th feed
RecordSets ==
  {[k \in 1..Len(l) |-> [l[k] EXCEPT !.source = ARCHITECTURE_FEEDS[k]]] :
     l \in SeqsUpTo(Records, MaxRecords)}

\* The record set is any list of records of different feeds, names repeated
\* or not; the queries are called on it for any name.
InitGraph ==
  /\ Idle
  /\ arg \in RecordSets
  /\ result = NoCall

GetDependencyTree ==
  \E n \in PkgNames :
    /\ result' = [fn |-> "getDependencyTree", name |-> n,
                  value |-> getDependencyTree(n, arg)]
    /\ UNCHANGED <<storeVars, arg>>

GetDependents ==
  \E n \in PkgNames :
    /\ result' = [fn |-> "getDependents", name |-> n,
                  value |-> getDependentsOf(n, arg)]
    /\ UNCHANGED <<storeVars, arg>>

NextGraph ==
  \/ GetDependencyTree
  \/ GetDependents

SpecGraph == InitGraph /\ [][NextGraph]_vars

\* ---------------------------------------------------------------- package manager service: text index
\* A string is the sequence of its characters; a run of characters that no
\* parser looks at ("Package", "1.0") is one element.
WhiteSpace == {" ", "\n", "\t", "\r"}

RECURSIVE trimStart(_)
trimStart(str) ==
  IF Len(str) > 0 /\ str[1] \in WhiteSpace THEN trimStart(Tail(str)) ELSE str

RECURSIVE trimEnd(_)
trimEnd(str) ==
  IF Len(str) > 0 /\ str[Len(str)] \in WhiteSpace
  THEN trimEnd(SubSeq(str, 1, Len(str) - 1))
  ELSE str

\* String.prototype.trim
trim(str) == trimEnd(trimStart(str))

\* String.prototype.indexOf, positions counted from 1; 0 when absent
indexOf(str, ch) ==
  IF \E i \in 1..Len(str) : str[i] = ch
  THEN CHOOSE i \in 1..Len(str) : str[i] = ch /\ \A j \in 1..(i - 1) : str[j] # ch
  ELSE 0

\* the pieces of str from position i on: the piece up to the first separator
\* at or after i, then the pieces after that separator
RECURSIVE splitFrom(_, _, _)
splitFrom(str, sep, i) ==
  LET matches == {m \in i..(Len(str) - Len(sep) + 1) :
                    SubSeq(str, m, m + Len(sep) - 1) = sep}
  IN  IF matches = {} THEN <<SubSeq(str, i, Len(str))>>
      ELSE LET first == CHOOSE m \in matches : \A other \in matches : m <= other
           IN  <<SubSeq(str, i, first - 1)>> \o splitFrom(str, sep, first + Len(sep))

\* String.prototype.split(separator): separators are matched left to right
split(str, sep) == splitFrom(str, sep, 1)

\* the decimal numerals of the index files
Numerals == [n \in {"50", "100"} |-> IF n = "50" THEN 50 ELSE 100]

\* parseInt(value, 10) || 0
parseIntOrZero(value) ==
  IF Len(value) > 0 /\ value[1] \in DOMAIN Numerals THEN Numerals[value[1]] ELSE 0

\* dep.match(/^([^(]+)/): the characters before the first "(", trimmed; the
\* entry itself when it starts with "("
stripConstraint(dep) ==
  LET paren == indexOf(dep, "(")
  IN  IF paren = 1 THEN dep
      ELSE IF paren = 0 THEN trim(dep)
      ELSE trim(SubSeq(dep, 1, paren - 1))

parseDependencies(dependsStr) ==
  IF dependsStr = <<>> THEN <<>>
  ELSE LET parts    == split(dependsStr, <<",">>)
           trimmed  == [k \in 1..Len(parts) |-> trim(parts[k])]
           kept     == SelectSeq(trimmed, LAMBDA dep : dep # <<>> /\ dep # <<"libc">>)
           stripped == [k \in 1..Len(kept) |-> stripConstraint(kept[k])]
       IN  SelectSeq(stripped, LAMBDA dep : dep # <<>>)

\* A field of a record under construction is <<>> while unset and <<value>>
\* once assigned.
Unset == <<>>

\* { source }
PartialPackage(source) ==
  [name |-> Unset, version |-> Unset, depends |-> Unset, license |-> Unset,
   section |-> Unset, url |-> Unset, cpeId |-> Unset, architecture |-> Unset,
   installedSize |-> Unset, filename |-> Unset, size |-> Unset,
   sha256sum |-> Unset, description |-> Unset, source |-> source]

\* !field: unset or the empty string
falsy(field) == field = Unset \/ field[1] = <<>>

\* one round of the loop over the lines of a block
parseLine(pkg, line) ==
  LET colonIndex == indexOf(line, ":")
      key   == trim(SubSeq(line, 1, colonIndex - 1))
      value == trim(SubSeq(line, colonIndex + 1, Len(line)))
  IN  IF colonIndex = 0 THEN pkg
      ELSE CASE key = <<"Package">>        -> [pkg EXCEPT !.name = <<value>>]
             [] key = <<"Version">>        -> [pkg EXCEPT !.version = <<value>>]
             [] key = <<"Depends">>        -> [pkg EXCEPT !.depends = <<parseDependencies(value)>>]
             [] key = <<"License">>        -> [pkg EXCEPT !.license = <<value>>]
             [] key = <<"Section">>        -> [pkg EXCEPT !.section = <<value>>]
             [] key = <<"URL">>            -> [pkg EXCEPT !.url = <<value>>]
             [] key = <<"CPE-ID">>         -> [pkg EXCEPT !.cpeId = <<value>>]
             [] key = <<"Architecture">>   -> [pkg EXCEPT !.architecture = <<value>>]
             [] key = <<"Installed-Size">> -> [pkg EXCEPT !.installedSize = <<parseIntOrZero(value)>>]
             [] key = <<"Filename">>       -> [pkg EXCEPT !.filename = <<value>>]
             [] key = <<"Size">>           -> [pkg EXCEPT !.size = <<parseIntOrZero(value)>>]
             [] key = <<"SHA256sum">>      -> [pkg EXCEPT !.sha256sum = <<value>>]
             [] key = <<"Description">>    -> [pkg EXCEPT !.description = <<value>>]
             [] OTHER                      -> pkg

RECURSIVE parseLines(_, _)
parseLines(pkg, lines) ==
  IF Len(lines) = 0 THEN pkg
  ELSE parseLines(parseLine(pkg, Head(lines)), Tail(lines))

\* a validation that does not ask for the file name
parsePackageBlockAnyFilename(block, source) ==
  LET pkg == parseLines(PartialPackage(source), split(block, <<"\n">>))
  IN  IF falsy(pkg.name) \/ falsy(pkg.version) \/ falsy(pkg.architecture)
      THEN <<>>
      ELSE <<pkg>>

\* the record of a block, <<>> for null
parsePackageBlock(block, source) ==
  LET pkg == parseLines(PartialPackage(source), split(block, <<"\n">>))
  IN  IF falsy(pkg.name) \/ falsy(pkg.version) \/ falsy(pkg.architecture)
         \/ falsy(pkg.filename)
      THEN <<>>
      ELSE <<pkg>>

parsePackagesFile(content, source) ==
  LET packageBlocks == SelectSeq(split(content, <<"\n", "\n">>),
                                 LAMBDA block : trim(block) # <<>>)
  IN  Flatten([k \in 1..Len(packageBlocks) |->
                 parsePackageBlock(packageBlocks[k], source)])

\* ---------------------------------------------------------------- specification: text index
\* The index files: blocks of "Key: value" lines, a blank line (or two)
\* between blocks.  A block has any of the four mandatory lines, the k-th
\* block's package is Name(k); every block has a Description line, and in
\* some files a Depends line too.
MandatoryKeys == {"Package", "Version", "Architecture", "Filename"}

Line(key, value) == <<key, ":", " ">> \o value \o <<"\n">>

OptionalLine(keys, key, value) == IF key \in keys THEN Line(key, value) ELSE <<>>

\* the text of a block, each line with its line end
BlockText(keys, k, withDepends) ==
  OptionalLine(keys, "Package", Name(k))
  \o OptionalLine(keys, "Version", <<"1.0">>)
  \o (IF withDepends
      THEN Line("Depends", <<"bar", " ", "(", ">=", " ", "1.0", ")", ",", " ", "libc">>)
      ELSE <<>>)
  \o OptionalLine(keys, "Architecture", <<"mips">>)
  \o Line("Installed-Size", <<"100">>)
  \o OptionalLine(keys, "Filename", Name(k) \o <<".ipk">>)
  \o Line("Description", <<"test", ":", " ", "text">>)

RECURSIVE FileText(_, _, _, _)
FileText(blocks, k, withDepends, gap) ==
  IF k > Len(blocks) THEN <<>>
  ELSE BlockText(blocks[k], k, withDepends)
       \o (IF k < Len(blocks) THEN gap ELSE <<>>)
       \o FileText(blocks, k + 1, withDepends, gap)

\* one or two blank lines between blocks
Gaps == {<<"\n">>, <<"\n", "\n">>}

Files ==
  {[blocks |-> blocks, withDepends |-> d,
    content |-> FileText(blocks, 1, d, gap)] :
     blocks \in SeqsUpTo(SUBSET MandatoryKeys, MaxBlocks) \ {<<>>},
     d \in BOOLEAN, gap \in Gaps}

InitText ==
  /\ Idle
  /\ arg \in Files
  /\ result = NoCall

ParsePackagesFile ==
  /\ result' = [fn |-> "parsePackagesFile",
                value |-> parsePackagesFile(arg.content, "base")]
  /\ UNCHANGED <<storeVars, arg>>

NextText == ParsePackagesFile

SpecText == InitText /\ [][NextText]_vars

\* ---------------------------------------------------------------- specification: Depends values
\* The values of Depends lines: entries separated by ", ", each a name,
\* with or without a version constraint in parentheses.
DependsNames == {<<"bar">>, <<"baz">>, <<"libc">>}

DependsEntries == [name : DependsNames, constrained : BOOLEAN]

EntryText(entry) ==
  IF entry.constrained
  THEN entry.name \o <<" ", "(", ">=", " ", "1.0", ")">>
  ELSE entry.name

RECURSIVE DependsText(_)
DependsText(entries) ==
  IF Len(entries) = 0 THEN <<>>
  ELSE IF Len(entries) = 1 THEN EntryText(entries[1])
  ELSE EntryText(entries[1]) \o <<",", " ">> \o DependsText(Tail(entries))

DependsValues ==
  {[entries |-> entries, value |-> DependsText(entries)] :
     entries \in SeqsUpTo(DependsEntries, MaxEntries)}

InitDepends ==
  /\ Idle
  /\ arg \in DependsValues
  /\ result = NoCall

ParseDependencies ==
  /\ result' = [fn |-> "parseDependencies", value |-> parseDependencies(arg.value)]
  /\ UNCHANGED <<storeVars, arg>>

NextDepends == ParseDependencies

SpecDepends == InitDepends /\ [][NextDepends]_vars

\* ---------------------------------------------------------------- binary index: dependencies
OP == [EQUAL |-> 1, LESS |-> 2, GREATER |-> 4, FUZZY |-> 8, CONFLICT |-> 16]

DEPMASK_ANY == OP.EQUAL + OP.LESS + OP.GREATER

DEPMASK_CHECKSUM == OP.LESS + OP.GREATER

\* op & bit, for one bit
hasBit(op, bit) == (op \div bit) % 2 = 1

versionOpString(op) ==
  LET o == IF hasBit(op, OP.CONFLICT) THEN op - OP.CONFLICT ELSE op
  IN  CASE o = OP.LESS                         -> <<"<">>
        [] o = OP.LESS + OP.EQUAL              -> <<"<", "=">>
        [] o = OP.LESS + OP.EQUAL + OP.FUZZY   -> <<"<", "~">>
        [] o = OP.EQUAL + OP.FUZZY             -> <<"~">>
        [] o = OP.FUZZY                        -> <<"~">>
        [] o = OP.EQUAL                        -> <<"=">>
        [] o = OP.GREATER + OP.EQUAL           -> <<">", "=">>
        [] o = OP.GREATER + OP.EQUAL + OP.FUZZY -> <<">", "~">>
        [] o = OP.GREATER                      -> <<">">>
        [] o = DEPMASK_CHECKSUM                -> <<">", "<">>
        [] o = DEPMASK_ANY                     -> <<>>
        [] OTHER                               -> <<"?">>

\* a rendering without the "!" of a conflict
dependencyToStringUnsigned(obj) ==
  IF obj.name = Unset THEN <<>>
  ELSE IF obj.version = Unset THEN obj.name[1]
  ELSE obj.name[1] \o <<"=">> \o obj.version[1]

\* A slot of an object is <<>> for the zero tag and <<value>> for the value
\* its tag points to.  A dependency object has the slots name, version, match.
dependencyToString(obj) ==
  IF obj.name = Unset THEN <<>>
  ELSE LET name == obj.name[1]
           read == IF obj.match = Unset THEN 0 ELSE obj.match[1]
           op   == IF read = 0 THEN OP.EQUAL ELSE read
           sgn  == IF hasBit(op, OP.CONFLICT) THEN <<"!">> ELSE <<>>
       IN  IF obj.version = Unset THEN sgn \o name
           ELSE sgn \o name \o versionOpString(op) \o obj.version[1]

\* the elements of an array behind non-zero tags
nonZero(arr) == Flatten(arr)

parseDependencyArray(arr) ==
  LET tags == nonZero(arr)
  IN  [i \in 1..Len(tags) |-> dependencyToString(tags[i])]

\* the fields of a package object that the record mapper reads
parsePkginfo(obj) ==
  [name |-> obj.name, version |-> obj.version, description |-> obj.description,
   arch |-> obj.arch, license |-> obj.license, url |-> obj.url,
   hashes |-> obj.hashes, installedSize |-> obj.installedSize,
   fileSize |-> obj.fileSize,
   depends |-> IF obj.depends = Unset THEN Unset
               ELSE <<parseDependencyArray(obj.depends[1])>>]

\* the packages of the index: one entry per non-zero tag of the package array
parsePackagesAdbFromBytes(arr) ==
  LET tags == nonZero(arr)
  IN  [i \in 1..Len(tags) |-> parsePkginfo(tags[i])]

\* ---------------------------------------------------------------- package manager service: binary index
AdbOperatorChars == {"<", ">", "=", "~"} \cup WhiteSpace

\* the longest prefix without a character of /[<>=~\s]/
RECURSIVE namePrefix(_)
namePrefix(str) ==
  IF Len(str) = 0 \/ str[1] \in AdbOperatorChars THEN <<>>
  ELSE <<str[1]>> \o namePrefix(Tail(str))

cleanAdbDependency(dep) ==
  LET unsigned == IF Len(dep) > 0 /\ dep[1] = "!" THEN Tail(dep) ELSE dep
      m == namePrefix(unsigned)
  IN  IF m # <<>> THEN trim(m) ELSE trim(dep)

\* value || '', for a string
orEmpty(field) == IF field = Unset THEN <<>> ELSE field[1]

\* Number(value || 0)
orZero(field) == IF field = Unset THEN 0 ELSE field[1]

\* the record of one entry
adbRecord(e, source) ==
  LET dependsRaw == IF e.depends = Unset THEN <<>> ELSE e.depends[1]
      cleaned    == [i \in 1..Len(dependsRaw) |-> cleanAdbDependency(dependsRaw[i])]
  IN  [PartialPackage(source) EXCEPT
         !.name = e.name,
         !.version = e.version,
         !.depends = <<SelectSeq(cleaned, LAMBDA d : d # <<>> /\ d # <<"libc">>)>>,
         !.license = e.license,
         !.section = <<(<<>>)>>,
         !.url = e.url,
         !.architecture = e.arch,
         !.installedSize = <<orZero(e.installedSize)>>,
         !.filename = <<e.name[1] \o <<"_">> \o e.version[1] \o <<"_">>
                         \o e.arch[1] \o <<".apk">>>>,
         !.size = <<orZero(e.fileSize)>>,
         !.sha256sum = <<orEmpty(e.hashes)>>,
         !.description = <<orEmpty(e.description)>>]

\* a mapper that does not ask for the architecture
mapAdbPackagesAnyArch(entries, source) ==
  LET kept == SelectSeq(entries, LAMBDA e : ~ (falsy(e.name) \/ falsy(e.version)))
  IN  [i \in 1..Len(kept) |->
         adbRecord([kept[i] EXCEPT !.arch = <<orEmpty(kept[i].arch)>>], source)]

mapAdbPackages(entries, source) ==
  LET kept == SelectSeq(entries, LAMBDA e :
                ~ (falsy(e.name) \/ falsy(e.version) \/ falsy(e.arch)))
  IN  [i \in 1..Len(kept) |-> adbRecord(kept[i], source)]

\* ---------------------------------------------------------------- specification: binary index
Masks == 0..31

\* dependency objects: a name or none, a version or none, a match or none
DependencyObjects ==
  [name : {Unset, <<(<<"bar">>)>>, <<(<<"libc">>)>>},
   version : {Unset, <<(<<"1.0">>)>>},
   match : {Unset} \cup {<<m>> : m \in Masks}]

\* dependency objects of a name alone
PlainDependencies ==
  {d \in DependencyObjects : d.name # Unset /\ d.version = Unset /\ d.match = Unset}

\* an array slot: the zero tag or the tag of an object
Slots(objects) == {<<>>} \cup {<<o>> : o \in objects}

\* depends arrays: any first slot, then slots of plain dependencies
DependsArrays ==
  {<<>>} \cup
  {<<first>> \o rest : first \in Slots(DependencyObjects),
                       rest \in SeqsUpTo(Slots(PlainDependencies), MaxAdbDeps - 1)}

\* the slots of a package object other than name, version, arch and depends,
\* all set or all zero
OtherSlots(set) ==
  [description |-> IF set THEN <<(<<"test">>)>> ELSE Unset,
   license |-> IF set THEN <<(<<"MIT">>)>> ELSE Unset,
   url |-> IF set THEN <<(<<"https", ":", "//", "x">>)>> ELSE Unset,
   hashes |-> IF set THEN <<(<<"abcd">>)>> ELSE Unset,
   installedSize |-> IF set THEN <<100>> ELSE Unset,
   fileSize |-> IF set THEN <<50>> ELSE Unset]

PackageObject(name, version, arch, set, depends) ==
  LET o == OtherSlots(set)
  IN  [name |-> name, version |-> version, arch |-> arch, depends |-> depends,
       description |-> o.description, license |-> o.license, url |-> o.url,
       hashes |-> o.hashes, installedSize |-> o.installedSize,
       fileSize |-> o.fileSize]

\* package objects without dependencies: any of name, version and arch set
BarePackages ==
  {PackageObject(name, version, arch, set, Unset) :
     name \in {Unset, <<(<<"foo">>)>>},
     version \in {Unset, <<(<<"1.0">>)>>},
     arch \in {Unset, <<(<<"mips">>)>>},
     set \in BOOLEAN}

\* a complete package object with a depends array
DependentPackages ==
  {PackageObject(<<(<<"foo">>)>>, <<(<<"1.0">>)>>, <<(<<"mips">>)>>, TRUE, <<deps>>) :
     deps \in DependsArrays}

\* the package array of an index
PackageArrays ==
  SeqsUpTo(Slots(BarePackages), MaxPackages) \cup {<<<<p>>>> : p \in DependentPackages}

InitAdb ==
  /\ Idle
  /\ arg \in PackageArrays
  /\ result = NoCall

\* the dependency objects of the index
DependenciesOf(arr) ==
  UNION {Range(nonZero(p.depends[1])) : p \in {q \in Range(nonZero(arr)) : q.depends # Unset}}

VersionOpString ==
  \E d \in DependenciesOf(arg) :
    /\ d.match # Unset
    /\ result' = [fn |-> "versionOpString", op |-> d.match[1],
                  value |-> versionOpString(d.match[1])]
    /\ UNCHANGED <<storeVars, arg>>

DependencyToString ==
  \E d \in DependenciesOf(arg) :
    /\ result' = [fn |-> "dependencyToString", obj |-> d,
                  value |-> dependencyToString(d)]
    /\ UNCHANGED <<storeVars, arg>>

\* fetchFeedPackages of a packages.adb: decode, then map
MapAdbPackages ==
  /\ result' = [fn |-> "mapAdbPackages",
                value |-> mapAdbPackages(parsePackagesAdbFromBytes(arg), "base")]
  /\ UNCHANGED <<storeVars, arg>>

NextAdb ==
  \/ VersionOpString
  \/ DependencyToString
  \/ MapAdbPackages

SpecAdb == InitAdb /\ [][NextAdb]_vars

\* ---------------------------------------------------------------- binary index: container
\* A buffer is its 32-bit little-endian words and its length in bytes.  A
\* word is [ind, val]: the two high bits and the low 30 bits.  Buffers are
\* shorter than 2^30 bytes.
ADB_BLOCK_ADB == 0

ADB_BLOCK_EXT == 3

\* readU32(dv, off), off a multiple of 4
readU32(u8, off) == u8.words[(off \div 4) + 1]

Zero == [ind |-> 0, val |-> 0]

\* (rawSize + 7) & ~7
alignTo8(rawSize) == ((rawSize + 7) \div 8) * 8

Threw(message) == [fn |-> "parseADBBlocks", status |-> "threw", error |-> message]

\* the code before the loop
parseADBBlocksStart(u8) ==
  IF u8.byteLength < 8 THEN Threw("File too small")
  ELSE IF readU32(u8, 0) # "ADB." THEN Threw("Not an ADB file (missing ADB. header)")
  ELSE [fn |-> "parseADBBlocks", status |-> "walking", off |-> 8, iterations |-> 0]

\* the test of the while loop and one round of its body, or the code after
\* the loop when the test fails
parseADBBlocksRound(u8, walk) ==
  LET off == walk.off
  IN  IF ~ (off < u8.byteLength) THEN Threw("No ADB block found")
      ELSE IF off + 4 > u8.byteLength THEN Threw("Truncated block header")
      ELSE
        LET typeSize == readU32(u8, off)
            ext      == typeSize.ind = ADB_BLOCK_EXT
        IN  IF ext /\ off + 16 > u8.byteLength
            THEN Threw("Truncated extended block header")
            ELSE
              LET blockType == IF ext THEN typeSize.val ELSE typeSize.ind
                  hdrSize   == IF ext THEN 16 ELSE 4
                  lo        == IF ext THEN readU32(u8, off + 8) ELSE Zero
                  hi        == IF ext THEN readU32(u8, off + 12) ELSE Zero
                  \* a raw size of 2^30 or more is past the end of the buffer
                  beyond    == lo.ind # 0 \/ hi # Zero
                  rawSize   == IF ext THEN lo.val ELSE typeSize.val
                  payloadLen == rawSize - hdrSize
                  payloadOff == off + hdrSize
              IN  IF beyond \/ payloadOff + payloadLen > u8.byteLength
                  THEN Threw("Truncated block payload")
                  ELSE IF blockType = ADB_BLOCK_ADB
                  THEN [fn |-> "parseADBBlocks", status |-> "returned",
                        schema |-> readU32(u8, 4),
                        adbPayload |-> [start |-> payloadOff,
                                        length |-> IF payloadLen > 0 THEN payloadLen ELSE 0]]
                  ELSE [walk EXCEPT !.off = off + alignTo8(rawSize),
                                    !.iterations = @ + 1]

\* ---------------------------------------------------------------- specification: container
BlockWords == [ind : {0, 1, 3}, val : {0, 8, 20}]

\* buffers with the magic, a schema word and up to MaxWords further words;
\* the last word may be cut short
Buffers ==
  {[words |-> <<"ADB.", "indx">> \o ws, byteLength |-> 4 * (2 + Len(ws)) - cut] :
     ws \in SeqsUpTo(BlockWords, MaxWords), cut \in {0, 2}}

InitBlocks ==
  /\ Idle
  /\ arg \in Buffers
  /\ result = NoCall

ParseADBBlocks ==
  /\ result = NoCall
  /\ result' = parseADBBlocksStart(arg)
  /\ UNCHANGED <<storeVars, arg>>

BlockWalkRound ==
  /\ result.fn = "parseADBBlocks"
  /\ result.status = "walking"
  /\ result.iterations < MaxIterations
  /\ result' = parseADBBlocksRound(arg, result)
  /\ UNCHANGED <<storeVars, arg>>

NextBlocks ==
  \/ ParseADBBlocks
  \/ BlockWalkRound

SpecBlocks == InitBlocks /\ [][NextBlocks]_vars

\* ---------------------------------------------------------------- binary index: tagged object reader
\* A payload is the sequence of its bytes.  A tag is [type, value]: the type
\* of its four high bits and the 28 bits of tag & ADB_VALUE_MASK.
TagTypes ==
  {"INT", "INT_32", "INT_64", "BLOB_8", "BLOB_16", "BLOB_32", "ARRAY", "OBJECT", "SPECIAL"}

\* TypedArray.prototype.subarray(begin, end): the indices are clamped
subarray(u8, begin, end) ==
  LET b == IF begin > Len(u8) THEN Len(u8) ELSE begin
      e == IF end > Len(u8) THEN Len(u8) ELSE end
  IN  IF e > b THEN SubSeq(u8, b + 1, e) ELSE <<>>

\* a slice without the bounds check
_sliceUnchecked(u8, tag, localOff, size) ==
  LET start == tag.value + localOff
  IN  [threw |-> FALSE, start |-> start, size |-> size,
       bytes |-> subarray(u8, start, start + size)]

_slice(u8, tag, localOff, size) ==
  LET base  == tag.value
      start == base + localOff
      end   == start + size
  IN  IF end > Len(u8) THEN [threw |-> TRUE]
      ELSE [threw |-> FALSE, start |-> start, size |-> size,
            bytes |-> subarray(u8, start, end)]

\* the byte at a position of a view, 0 when the view is shorter
byteAt(bytes, i) == IF i <= Len(bytes) THEN bytes[i] ELSE 0

\* DataView.prototype.getUint16 / getUint32, little endian, at byte offset off
getUint16(bytes, off) == byteAt(bytes, off + 1) + 256 * byteAt(bytes, off + 2)

getUint32(bytes, off) ==
  getUint16(bytes, off) + 65536 * getUint16(bytes, off + 2)

OutOfBounds(fn, tag, reads) ==
  [fn |-> fn, tag |-> tag, status |-> "threw", error |-> "Out-of-bounds deref",
   reads |-> reads]

Returned(fn, tag, reads, value) ==
  [fn |-> fn, tag |-> tag, status |-> "returned", reads |-> reads, value |-> value]

readInt(u8, tag) ==
  CASE tag.type = "INT" -> Returned("readInt", tag, <<>>, tag.value)
    [] tag.type = "INT_32" ->
         LET v == _slice(u8, tag, 0, 4)
         IN  IF v.threw THEN OutOfBounds("readInt", tag, <<>>)
             ELSE Returned("readInt", tag, <<v>>, getUint32(v.bytes, 0))
    [] tag.type = "INT_64" ->
         LET v == _slice(u8, tag, 0, 8)
         IN  IF v.threw THEN OutOfBounds("readInt", tag, <<>>)
             ELSE Returned("readInt", tag, <<v>>,
                           [lo |-> getUint32(v.bytes, 0), hi |-> getUint32(v.bytes, 4)])
    [] OTHER -> Returned("readInt", tag, <<>>, 0)

\* the width of the length field of a blob
lengthBytes(type) ==
  CASE type = "BLOB_8" -> 1 [] type = "BLOB_16" -> 2 [] type = "BLOB_32" -> 4
    [] OTHER -> 0

readBlob(u8, tag) ==
  IF lengthBytes(tag.type) = 0 THEN Returned("readBlob", tag, <<>>, <<>>)
  ELSE LET v == _slice(u8, tag, 0, lengthBytes(tag.type))
       IN  IF v.threw THEN OutOfBounds("readBlob", tag, <<>>)
           ELSE LET len == CASE tag.type = "BLOB_8" -> byteAt(v.bytes, 1)
                             [] tag.type = "BLOB_16" -> getUint16(v.bytes, 0)
                             [] OTHER -> getUint32(v.bytes, 0)
                    blob == _slice(u8, tag, lengthBytes(tag.type), len)
                IN  IF blob.threw THEN OutOfBounds("readBlob", tag, <<v>>)
                    ELSE Returned("readBlob", tag, <<v, blob>>, blob.bytes)

\* TextDecoder('utf-8').decode of bytes below 128: their code points
readString(u8, tag) ==
  LET blob == readBlob(u8, tag)
  IN  IF blob.status = "threw" THEN [blob EXCEPT !.fn = "readString"]
      ELSE [blob EXCEPT !.fn = "readString",
                        !.value = [i \in 1..Len(@) |-> [codePoint |-> @[i]]]]

HexDigits ==
  <<"0", "1", "2", "3", "4", "5", "6", "7", "8", "9", "a", "b", "c", "d", "e", "f">>

\* b.toString(16).padStart(2, '0')
hexByte(b) == <<HexDigits[(b \div 16) + 1], HexDigits[(b % 16) + 1]>>

\* hexOf
hexOf(bytes) == Flatten([i \in 1..Len(bytes) |-> hexByte(bytes[i])])

readHex(u8, tag) ==
  LET blob == readBlob(u8, tag)
  IN  IF blob.status = "threw" THEN [blob EXCEPT !.fn = "readHex"]
      ELSE [blob EXCEPT !.fn = "readHex", !.value = hexOf(@)]

readObj(u8, tag) ==
  IF tag.type \notin {"OBJECT", "ARRAY"}
  THEN [fn |-> "readObj", tag |-> tag, status |-> "threw",
        error |-> "Not an object/array tag", reads |-> <<>>]
  ELSE LET first == _slice(u8, tag, 0, 4)
       IN  IF first.threw THEN OutOfBounds("readObj", tag, <<>>)
           ELSE LET numSlots == getUint32(first.bytes, 0)
                    bytes    == _slice(u8, tag, 0, 4 * numSlots)
                IN  IF bytes.threw THEN OutOfBounds("readObj", tag, <<first>>)
                    ELSE Returned("readObj", tag, <<first, bytes>>,
                                  [i \in 1..numSlots |->
                                     getUint32(bytes.bytes, 4 * (i - 1))])

\* ---------------------------------------------------------------- specification: tagged object reader
\* the 8 bytes of the payload header: compat, ver, padding, root tag
PayloadHeader == <<1, 1, 0, 0, 2, 0, 0, 0>>

Bytes == {0, 1, 2}

Payloads == {PayloadHeader \o body : body \in SeqsUpTo(Bytes, MaxBody)}

\* a payload and a tag whose value is an offset up to one past its end
Dereferences ==
  {[u8 |-> u8, tag |-> [type |-> type, value |-> value]] :
     u8 \in Payloads, type \in TagTypes, value \in 0..(8 + MaxBody + 1)}

InitReader ==
  /\ Idle
  /\ arg \in Dereferences
  /\ result = NoCall

ReadInt ==
  /\ result' = readInt(arg.u8, arg.tag)
  /\ UNCHANGED <<storeVars, arg>>

ReadBlob ==
  /\ result' = readBlob(arg.u8, arg.tag)
  /\ UNCHANGED <<storeVars, arg>>

ReadString ==
  /\ result' = readString(arg.u8, arg.tag)
  /\ UNCHANGED <<storeVars, arg>>

ReadHex ==
  /\ result' = readHex(arg.u8, arg.tag)
  /\ UNCHANGED <<storeVars, arg>>

ReadObj ==
  /\ result' = readObj(arg.u8, arg.tag)
  /\ UNCHANGED <<storeVars, arg>>

NextReader ==
  \/ ReadInt
  \/ ReadBlob
  \/ ReadString
  \/ ReadHex
  \/ ReadObj

SpecReader == InitReader /\ [][NextReader]_vars

\* ---------------------------------------------------------------- binary index: envelope
\* A file is [u8, zlib, raw, streams]: its bytes, whether the bytes after
\* the envelope header decode as a zlib stream and as a raw deflate stream,
\* and whether the browser has DecompressionStream.  A byte is a character
\* or two hex digits.
\* DecompressionStream formats: 'deflate' is the zlib-wrapped stream,
\* 'deflate-raw' the raw one
decodes(file, format) == IF format = "deflate" THEN file.zlib ELSE file.raw

\* pipeDecompress, joined to the attempts made so far
pipeDecompress(file, u8, format, attempts) ==
  LET made == Append(attempts, [format |-> format, input |-> u8])
  IN  IF decodes(file, format)
      THEN [status |-> "returned", attempts |-> made,
            value |-> [inflated |-> u8, format |-> format]]
      ELSE [status |-> "threw", attempts |-> made, error |-> format]

\* an inflate without the second attempt
inflateOnce(file, u8) ==
  IF ~ file.streams
  THEN [status |-> "threw", attempts |-> <<>>,
        error |-> "Deflate not supported by this browser"]
  ELSE pipeDecompress(file, u8, "deflate", <<>>)

inflate(file, u8) ==
  IF ~ file.streams
  THEN [status |-> "threw", attempts |-> <<>>,
        error |-> "Deflate not supported by this browser"]
  ELSE LET first == pipeDecompress(file, u8, "deflate", <<>>)
       IN  IF first.status = "returned" THEN first
           ELSE pipeDecompress(file, u8, "deflate-raw", first.attempts)

EnvelopeError(message) == [status |-> "threw", attempts |-> <<>>, error |-> message]

\* a dispatch that passes the whole buffer through for algorithm 0
maybeDecompressWithHeader(file) ==
  LET u8 == file.u8
  IN  IF Len(u8) >= 6 /\ SubSeq(u8, 1, 4) = <<"A", "D", "B", "c">> /\ u8[5] = "00"
      THEN [status |-> "returned", attempts |-> <<>>, value |-> u8]
      ELSE inflate(file, subarray(u8, 4, Len(u8)))

maybeDecompress(file) ==
  LET u8 == file.u8
  IN  IF Len(u8) < 4 THEN EnvelopeError("File too small")
      ELSE LET head == SubSeq(u8, 1, 4)
           IN  IF head = <<"A", "D", "B", "d">>
               THEN inflate(file, subarray(u8, 4, Len(u8)))
               ELSE IF head = <<"A", "D", "B", "c">>
               THEN IF Len(u8) < 6 THEN EnvelopeError("Truncated ADBc header")
                    ELSE LET alg  == u8[5]
                             rest == subarray(u8, 6, Len(u8))
                         IN  CASE alg = "00" ->
                                    [status |-> "returned", attempts |-> <<>>,
                                     value |-> rest]
                               [] alg = "01" -> inflate(file, rest)
                               [] alg = "02" ->
                                    EnvelopeError("ADB zstd not supported in browser")
                               [] OTHER ->
                                    EnvelopeError("Unknown ADBc compression algorithm")
               ELSE [status |-> "returned", attempts |-> <<>>, value |-> u8]

\* ---------------------------------------------------------------- specification: envelope
Heads ==
  {<<"A", "D", "B", "d">>, <<"A", "D", "B", "c">>, <<"A", "D", "B", ".">>,
   <<"P", "a", "c", "k">>}

AlgorithmIds == {"00", "01", "02", "03"}

\* a head, an algorithm byte, a level byte and up to MaxRest further bytes
WholeBuffers ==
  {head \o <<alg, "09">> \o rest :
     head \in Heads, alg \in AlgorithmIds, rest \in SeqsUpTo({"00", "78"}, MaxRest)}

\* the buffers and the buffers cut short
EnvelopeBuffers == {SubSeq(b, 1, n) : b \in WholeBuffers, n \in 0..6} \cup WholeBuffers

EnvelopeFiles ==
  [u8 : EnvelopeBuffers, zlib : BOOLEAN, raw : BOOLEAN, streams : BOOLEAN]

InitEnvelope ==
  /\ Idle
  /\ arg \in EnvelopeFiles
  /\ result = NoCall

MaybeDecompress ==
  /\ result' = [fn |-> "maybeDecompress", outcome |-> maybeDecompress(arg)]
  /\ UNCHANGED <<storeVars, arg>>

NextEnvelope == MaybeDecompress

SpecEnvelope == InitEnvelope /\ [][NextEnvelope]_vars

\* ---------------------------------------------------------------- api service: image urls
\* buildOverviewUrl and buildImageUrl, the same code; baseUrl is
\* config.image_url unless the versions file overrides it
buildImageUrl(version, baseUrl) ==
  IF version = MainSnapshot THEN <<baseUrl, "/snapshots", "/">>
  ELSE <<baseUrl, "/releases/">> \o version

buildOverviewUrl(version, baseUrl) == buildImageUrl(version, baseUrl)

\* the url of profiles.json
profilesUrl(version, target, baseUrl) ==
  buildImageUrl(version, baseUrl) \o <<"/targets/", target, "/profiles.json">>

\* ---------------------------------------------------------------- specification: feed resolution
FeedVersions == {Release, BranchSnapshot, MainSnapshot}

FeedRequests ==
  [version : FeedVersions, architecture : {"arch", "mips"}, target : {"", "tA", "tB"}]

\* no feeds loaded, the profile of a device or none
InitFeeds ==
  /\ currentVersion = Release
  /\ selectedDevice = NoDevice
  /\ selectedProfile \in {NoProfile} \cup {ProfileOf(title) : title \in DeviceTitles}
  /\ devices = DevicesOf(Release)
  /\ selectedModel = ""
  /\ requests = EmptyBag
  /\ NoBuild
  /\ sessionDevice = ""
  /\ selectedPackages = <<>>
  /\ removedPackages = <<>>
  /\ feeds = <<>>
  /\ isLoading = FALSE
  /\ error = ""
  /\ loads = <<>>
  /\ repoFetches = <<>>
  /\ arg \in FeedRequests
  /\ result = NoCall

GenerateFeedUrls ==
  \E kernelInfo \in {NoKernel, KernelOf("A")} :
    /\ result' = [fn |-> "generateFeedUrls", kernelInfo |-> kernelInfo,
                  value |-> generateFeedUrls(arg.version, arg.architecture,
                                             arg.target, kernelInfo)]
    /\ UNCHANGED <<storeVars, arg>>

LoadPackagesForDevice ==
  /\ Len(loads) < MaxLoads
  /\ SetStore(loadPackagesForDevice(Store, selectedProfile, arg.version,
                                    arg.architecture, arg.target))
  /\ UNCHANGED firmwareVars

GetProfilesUrl ==
  /\ arg.target # ""
  /\ result' = [fn |-> "getProfiles",
                base |-> buildImageUrl(arg.version, image_url),
                value |-> profilesUrl(arg.version, arg.target, image_url)]
  /\ UNCHANGED <<storeVars, arg>>

GetOverviewUrl ==
  /\ result' = [fn |-> "getOverview",
                base |-> buildOverviewUrl(arg.version, image_url),
                value |-> buildOverviewUrl(arg.version, image_url) \o <<"/.overview.json">>]
  /\ UNCHANGED <<storeVars, arg>>

NextFeeds ==
  \/ GenerateFeedUrls
  \/ LoadPackagesForDevice
  \/ GetProfilesUrl
  \/ GetOverviewUrl

SpecFeeds == InitFeeds /\ [][NextFeeds]_vars

\* ---------------------------------------------------------------- build request package list
\* config.asu_extra_packages
asu_extra_packages == << <<"l", "u", "c", "i">> >>

\* config.enable_module_management
enable_module_management == FALSE

\* the characters of the model in UTF-16 code unit order, the order of
\* Array.prototype.sort without a comparator
CodeUnitOrder == <<"-", "a", "b", "c", "d", "e", "f", "i", "l", "u">>

codeUnit(ch) == CHOOSE i \in 1..Len(CodeUnitOrder) : CodeUnitOrder[i] = ch

RECURSIVE sortsBefore(_, _)
sortsBefore(x, y) ==
  IF Len(x) = 0 THEN Len(y) > 0
  ELSE IF Len(y) = 0 THEN FALSE
  ELSE IF x[1] # y[1] THEN codeUnit(x[1]) < codeUnit(y[1])
  ELSE sortsBefore(Tail(x), Tail(y))

RECURSIVE sorted(_)
sorted(set) ==
  IF set = {} THEN <<>>
  ELSE LET first == CHOOSE x \in set : \A y \in set \ {x} : sortsBefore(x, y)
       IN  <<first>> \o sorted(set \ {first})

\* one step of userPackages.forEach in AsuService.buildPackagesList
RECURSIVE processUserPackages(_, _)
processUserPackages(all, userPackages) ==
  IF userPackages = <<>> THEN all
  ELSE LET trimmed == trim(Head(userPackages))
           next == IF startsWithDash(trimmed) THEN all \ {Tail(trimmed)}
                   ELSE IF trimmed # <<>> THEN all \cup {trimmed}
                   ELSE all
       IN  processUserPackages(next, Tail(userPackages))

\* AsuService.buildPackagesList
asuBuildPackagesList(devicePackages, defaultPackages_, userPackages, extraPackages) ==
  sorted(processUserPackages(
    Range(devicePackages) \cup Range(defaultPackages_) \cup Range(extraPackages),
    userPackages))

\* the packages of the selected modules, none while module management is off
modulePackages == <<>>

\* profiles of the model carry no device_packages: device_packages || []
device_packages(profile) == <<>>

finalPackages ==
  IF selectedProfile = NoProfile THEN <<>>
  ELSE asuBuildPackagesList(
         device_packages(selectedProfile),
         selectedProfile.default_packages,
         <<>>,
         asu_extra_packages \o (IF enable_module_management THEN modulePackages ELSE <<>>)
           \o buildPackagesList)

\* ---------------------------------------------------------------- build polling
\* everything but the build state of the CustomBuild component
appVars == <<currentVersion, selectedProfile, selectedDevice, selectedPackages,
             removedPackages, feeds, isLoading, error, loads, devices, selectedModel,
             requests, sessionDevice, repoFetches, arg, result>>

\* the request hashes the build server hands out, one per build request
Hashes == 1..MaxBuilds

\* the HTTP statuses the build server answers a status request with
HttpStatuses == {200, 202, 500}

\* the hashes of the requests made so far that the component still knows of
knownHashes ==
  {asuCalls[i].requestHash : i \in 1..Len(asuCalls)}
  \cup {emitted[i].request_hash[1] : i \in {j \in 1..Len(emitted) : emitted[j].request_hash # Null}}
  \cup (IF pollInterval = Null THEN {} ELSE {pollInterval[1]})
  \cup (IF buildStatus = Null \/ buildStatus[1].request_hash = Null THEN {}
        ELSE {buildStatus[1].request_hash[1]})

\* the calls in flight once the call at position i has been answered
withoutCall(calls, i) == SubSeq(calls, 1, i - 1) \o SubSeq(calls, i + 1, Len(calls))

\* emit(event, ...) of the build a request hash belongs to
emit(event, hash) == Append(emitted, [event |-> event, request_hash |-> hash])

\* every call in flight emits at most one event when it is answered
roomForEvent == Len(emitted) + Len(asuCalls) < MaxEvents

\* requestBuild up to its await of asuService.requestBuild; the button is
\* disabled unless canBuild
RequestBuild ==
  /\ buildMounted /\ ~ isBuilding
  /\ selectedDevice # NoDevice /\ selectedProfile # NoProfile
  /\ roomForEvent
  /\ Hashes \ knownHashes # {}
  /\ LET hash == CHOOSE h \in Hashes \ knownHashes :
                   \A other \in Hashes \ knownHashes : h <= other
     IN  asuCalls' = Append(asuCalls, [call |-> "requestBuild", requestHash |-> hash])
  /\ isBuilding' = TRUE
  /\ buildError' = ""
  /\ UNCHANGED <<appVars, buildStatus, pollInterval, buildMounted, emitted>>

\* requestBuild after the await: the response is stored and, when it carries a
\* request_hash, startPolling replaces the interval timer
BuildResponse ==
  \E i \in 1..Len(asuCalls), withHash \in BOOLEAN :
    /\ asuCalls[i].call = "requestBuild"
    /\ LET request_hash == IF withHash THEN <<asuCalls[i].requestHash>> ELSE Null
       IN  /\ buildStatus' = <<[request_hash |-> request_hash, httpStatus |-> Null]>>
           /\ pollInterval' = IF withHash THEN request_hash ELSE pollInterval
    /\ isBuilding' = FALSE
    /\ asuCalls' = withoutCall(asuCalls, i)
    /\ UNCHANGED <<appVars, buildError, buildMounted, emitted>>

\* requestBuild, catch: the request failed
BuildFailure ==
  \E i \in 1..Len(asuCalls) :
    /\ asuCalls[i].call = "requestBuild"
    /\ buildError' = "failed"
    /\ emitted' = emit("build-error", Null)
    /\ isBuilding' = FALSE
    /\ asuCalls' = withoutCall(asuCalls, i)
    /\ UNCHANGED <<appVars, buildStatus, pollInterval, buildMounted>>

\* the interval timer fires: its callback calls asuService.getBuildStatus
\* and awaits the answer
PollTick ==
  /\ pollInterval # Null
  /\ roomForEvent
  /\ asuCalls' = Append(asuCalls, [call |-> "getBuildStatus", requestHash |-> pollInterval[1]])
  /\ UNCHANGED <<appVars, buildStatus, buildError, isBuilding, pollInterval,
                 buildMounted, emitted>>

\* the timer callback after the await
PollAnswer ==
  \E i \in 1..Len(asuCalls), httpStatus \in HttpStatuses :
    /\ asuCalls[i].call = "getBuildStatus"
    /\ LET requestHash == asuCalls[i].requestHash
       IN  /\ buildStatus' = <<[request_hash |-> <<requestHash>>, httpStatus |-> <<httpStatus>>]>>
           /\ IF httpStatus = 200
                THEN /\ pollInterval' = Null
                     /\ emitted' = emit("build-success", <<requestHash>>)
              ELSE IF httpStatus = 202
                THEN UNCHANGED <<pollInterval, emitted>>
              ELSE IF httpStatus >= 400
                THEN /\ pollInterval' = Null
                     /\ emitted' = emit("build-error", <<requestHash>>)
              ELSE UNCHANGED <<pollInterval, emitted>>
    /\ asuCalls' = withoutCall(asuCalls, i)
    /\ UNCHANGED <<appVars, buildError, isBuilding, buildMounted>>

\* the timer callback, catch: getBuildStatus threw
PollError ==
  \E i \in 1..Len(asuCalls) :
    /\ asuCalls[i].call = "getBuildStatus"
    /\ pollInterval' = Null
    /\ emitted' = emit("build-error", <<asuCalls[i].requestHash>>)
    /\ asuCalls' = withoutCall(asuCalls, i)
    /\ UNCHANGED <<appVars, buildStatus, buildError, isBuilding, buildMounted>>

ResetBuild ==
  /\ buildMounted
  /\ roomForEvent
  /\ buildStatus' = Null
  /\ buildError' = ""
  /\ pollInterval' = Null
  /\ emitted' = Append(emitted, [event |-> "build-reset", request_hash |-> Null])
  /\ UNCHANGED <<appVars, isBuilding, buildMounted, asuCalls>>

\* the watchers of firmware.selectedDevice and firmware.currentVersion
ResetCustomConfiguration ==
  /\ buildMounted
  /\ pollInterval' = Null
  /\ buildStatus' = Null
  /\ buildError' = ""
  /\ selectedPackages' = <<>>
  /\ removedPackages' = <<>>
  /\ feeds' = <<>>
  /\ error' = ""
  /\ repoFetches' = markStale(repoFetches)
  /\ UNCHANGED <<currentVersion, selectedProfile, selectedDevice, isLoading, loads,
                 devices, selectedModel, requests, sessionDevice, arg, result,
                 isBuilding, buildMounted, asuCalls, emitted>>

OnUnmounted ==
  /\ buildMounted
  /\ buildMounted' = FALSE
  /\ pollInterval' = Null
  /\ UNCHANGED <<appVars, buildStatus, buildError, isBuilding, asuCalls, emitted>>

NextPolling ==
  \/ RequestBuild
  \/ BuildResponse
  \/ BuildFailure
  \/ PollTick
  \/ PollAnswer
  \/ PollError
  \/ ResetBuild
  \/ ResetCustomConfiguration
  \/ OnUnmounted

SpecPolling == InitSelection /\ [][NextPolling]_vars

\* ================================================================ claims
\* C1 (Invariant A): in every state reachable by package-store mutations under a
\* fixed profile, every name in the removed set is a default package.
C1_RemovedOnlyDefaults ==
  \A n \in Range(removedPackages) : isPackageInDefaults(n)

\* C2 (Invariant B): in every state reachable by package-store mutations under a
\* fixed profile, no name in the added (selected) set is a default package.
C2_AddedNeverDefault ==
  \A n \in Range(selectedPackages) : ~ isPackageInDefaults(n)

\* C3: the build list is the surviving defaults in profile order, then the added
\* names, then every removed name with a "-" prefix; as a set it is
\* (D - removed) + added + {"-"+n : n in removed}.
C3_BuildListIsUnion ==
  LET survivors == SelectSeq(defaultPackages, LAMBDA pkg : ~ includes(removedPackages, pkg))
  IN  /\ buildPackagesList
           = survivors \o selectedPackages \o MapSeq(dashPrefix, removedPackages)
      /\ Range(buildPackagesList)
           = (Range(defaultPackages) \ Range(removedPackages))
             \cup Range(selectedPackages)
             \cup {dashPrefix(n) : n \in Range(removedPackages)}

\* the state of every name other than n is the same before and after the step
OthersUnchanged(n) ==
  \A m \in PkgNames \ {n} :
    /\ includes(selectedPackages', m) <=> includes(selectedPackages, m)
    /\ includes(removedPackages', m) <=> includes(removedPackages, m)

\* C4: togglePackage(n) of a default name n flips n between unset and removed,
\* changes no other name's state, and leaves n out of the added set.
C4_ToggleDefault ==
  [][\A n \in PkgNames :
       (isPackageInDefaults(n) /\ SetSel(togglePackage(Sel, n)))
         => /\ includes(removedPackages', n) <=> ~ includes(removedPackages, n)
            /\ OthersUnchanged(n)
            /\ ~ includes(selectedPackages', n)]_vars

\* C5: togglePackage(n) of a non-default name n flips n between unset and added,
\* changes no other name's state, and leaves n out of the removed set.
C5_ToggleNonDefault ==
  [][\A n \in PkgNames :
       (~ isPackageInDefaults(n) /\ SetSel(togglePackage(Sel, n)))
         => /\ includes(selectedPackages', n) <=> ~ includes(selectedPackages, n)
            /\ OthersUnchanged(n)
            /\ ~ includes(removedPackages', n)]_vars

\* C6: togglePackage(n) twice in a row restores the added set, the removed set
\* and the build list, from every reachable state and for every name n.
C6_ToggleInvolution ==
  \A n \in PkgNames :
    LET T == togglePackage(togglePackage(Sel, n), n)
    IN  /\ Range(T.sel) = Range(selectedPackages)
        /\ Range(T.rem) = Range(removedPackages)
        /\ Range(buildListOf(T.sel, T.rem)) = Range(buildPackagesList)

\* C7: addRemovedPackage of a non-default name and addPackage of a default name
\* are clamped to unset: afterwards the name is in neither set.
C7_ClampToUnset ==
  [][\A n \in PkgNames :
       (\/ ~ isPackageInDefaults(n) /\ SetSel(addRemovedPackage(Sel, n))
        \/ isPackageInDefaults(n) /\ SetSel(addPackage(Sel, n)))
         => /\ ~ includes(selectedPackages', n)
            /\ ~ includes(removedPackages', n)]_vars

\* ---------------------------------------------------------------- feed loading
AllTasksSettled == \A c \in 1..Len(loads) : loads[c].pending = 0

NoFeedLoading == \A i \in 1..Len(feeds) : ~ feeds[i].isLoading

\* C9: in every reachable state, overlapping calls of loadPackagesForDevice
\* included, the store's isLoading is false only if no feed of the current feed
\* set has isLoading true.
C9_LoadingUntilAllSettled == (isLoading = FALSE) => NoFeedLoading

\* the step is the failure of the task of feeds[j]
FailureStep(j) ==
  /\ feeds[j].isLoading
  /\ SetStore(taskFailed(Store, feeds[j].obj))

\* C10: a feed failure is isolated to that feed.  The failing task writes the
\* error string to its own descriptor only, which then has no records and is
\* no longer loading; every other descriptor is left as it was; the store's
\* error stays empty; and once every task has settled no feed is loading.
C10_FailureIsolated ==
  /\ [](error = "")
  /\ [](\A i \in 1..Len(feeds) :
          feeds[i].error # Undefined => feeds[i].packages = <<>> /\ ~ feeds[i].isLoading)
  /\ [](AllTasksSettled => NoFeedLoading)
  /\ [][\A j \in 1..Len(feeds) :
          FailureStep(j) =>
            /\ Len(feeds') = Len(feeds)
            /\ feeds'[j].error # Undefined
            /\ feeds'[j].packages = <<>>
            /\ ~ feeds'[j].isLoading
            /\ \A k \in 1..Len(feeds) : k # j => feeds'[k] = feeds[k]]_vars

\* one feed of the current set failed, another delivered packages, and every
\* task has settled
C10_Witness ==
  /\ loads # <<>>
  /\ AllTasksSettled
  /\ \E i \in 1..Len(feeds) : feeds[i].error # Undefined
  /\ \E i \in 1..Len(feeds) : feeds[i].packages # <<>>
  /\ isLoading = FALSE


\* ---------------------------------------------------------------- device sessions
\* C8: whenever the selected device becomes a device other than the one
\* selected last (directly, after an empty selection, or after a version
\* change), the added and the removed set are empty at that moment.
C8_ClearedOnDeviceSwitch ==
  [][(/\ selectedDevice' # NoDevice
      /\ selectedDevice' # selectedDevice
      /\ sessionDevice # ""
      /\ selectedDevice'.title # sessionDevice)
     => (selectedPackages' = <<>> /\ removedPackages' = <<>>)]_vars

\* ---------------------------------------------------------------- stale results
\* the step is the answer of the repository fetch repoFetches[k]
RepositoryAnswerStep(k) ==
  SetStore(addCustomFeedPackages([Store EXCEPT !.repoFetches = removeAt(@, k)],
                                 repoFetches[k].name,
                                 RepoContent(repoFetches[k].name)))

\* C11: after the feed set was replaced, no package fetched by a task started
\* before the replacement appears in allPackages: the answer of a stale
\* repository fetch, and the settling of a feed task of an earlier call, add
\* no package.
C11_StaleResultsDiscarded ==
  [][/\ \A k \in 1..Len(repoFetches) :
          (repoFetches[k].stale /\ RepositoryAnswerStep(k))
            => Range(allPackages') \subseteq Range(allPackages)
     /\ \A c \in 1..Len(loads) :
          (Detached(c) /\ loads[c].pending > 0 /\ SetStore(settle(Store, c)))
            => Range(allPackages') \subseteq Range(allPackages)]_vars

\* ---------------------------------------------------------------- snapshots
\* C12: restoring a snapshot is a round trip.  In every reachable state,
\* setPackageConfiguration(getPackageConfiguration()) leaves the added set, the
\* removed set and the build list as they are; and for every snapshot c,
\* getPackageConfiguration() after setPackageConfiguration(c) returns the name
\* sets of c.
C12_SnapshotRoundTrip ==
  /\ LET R == setPackageConfiguration(Sel, getPackageConfiguration(Sel))
     IN  /\ R.sel = selectedPackages
         /\ R.rem = removedPackages
         /\ buildListOf(R.sel, R.rem) = buildPackagesList
  /\ \A c \in Snapshots :
       LET G == getPackageConfiguration(setPackageConfiguration(Sel, c))
       IN  /\ Range(G.addedPackages) = Range(c.addedPackages)
           /\ Range(G.removedPackages) = Range(c.removedPackages)

\* a state with added and removed names, which a snapshot would carry
C12_Witness ==
  /\ Len(selectedPackages) = 2
  /\ removedPackages # <<>>
  /\ getPackageConfiguration(Sel).removedPackages = removedPackages

\* ---------------------------------------------------------------- dependency graph
\* the names one dependency edge away from a name of from
Successors(from, packages) ==
  {d \in PkgNames : \E k \in 1..Len(packages) :
     packages[k].name \in from /\ includes(packages[k].depends, d)}

RECURSIVE ReachableIn(_, _, _)
ReachableIn(found, packages, rounds) ==
  IF rounds = 0 THEN found
  ELSE ReachableIn(found \cup Successors(found, packages), packages, rounds - 1)

\* the names reachable from name through one or more dependency edges
Reachable(name, packages) ==
  ReachableIn(Successors({name}, packages), packages, Cardinality(PkgNames))

NoRepeats(list) == Cardinality(Range(list)) = Len(list)

\* C13: getDependencyTree returns each name reachable from the start name
\* through one or more dependency edges exactly once, and never the start name.
C13_ExpandIsReachableSet ==
  result.fn = "getDependencyTree" =>
    /\ NoRepeats(result.value)
    /\ ~ includes(result.value, result.name)
    /\ Range(result.value) = Reachable(result.name, arg) \ {result.name}

\* the names of the records that depend on name
DependentNames(name, packages) ==
  {packages[k].name : k \in {j \in 1..Len(packages) : includes(packages[j].depends, name)}}

\* C14: over a record set where only x depends on y, x in one feed or in
\* several, getDependents(y) is the one-element list of x.
C14_DependentsOnce ==
  result.fn = "getDependents" =>
    \A x \in PkgNames :
      DependentNames(result.name, arg) = {x} => result.value = <<x>>

\* ---------------------------------------------------------------- text index
\* the positions of the blocks that carry all four mandatory lines
ValidBlocks(blocks) == {k \in 1..Len(blocks) : blocks[k] = MandatoryKeys}

\* the names of the valid blocks, in the order of the file
RECURSIVE ValidNames(_, _)
ValidNames(blocks, k) ==
  IF k > Len(blocks) THEN <<>>
  ELSE (IF k \in ValidBlocks(blocks) THEN <<Name(k)>> ELSE <<>>)
       \o ValidNames(blocks, k + 1)

\* C15: parsePackagesFile returns one record per block that carries Package,
\* Version, Architecture and Filename, in the order of the file, and nothing
\* for a block that lacks one of them; the blocks after a dropped block are
\* still parsed, and the number of records is the number of valid blocks.
C15_OneRecordPerValidBlock ==
  result.fn = "parsePackagesFile" =>
    /\ Len(result.value) = Cardinality(ValidBlocks(arg.blocks))
    /\ [k \in 1..Len(result.value) |-> result.value[k].name[1]]
         = ValidNames(arg.blocks, 1)
    /\ \A k \in 1..Len(result.value) :
         /\ result.value[k].version = <<(<<"1.0">>)>>
         /\ result.value[k].architecture = <<(<<"mips">>)>>
         /\ result.value[k].filename = <<result.value[k].name[1] \o <<".ipk">>>>

\* a file of two blocks, the first without Filename, parsed to the one record
\* of the second block
C15_Witness ==
  /\ result.fn = "parsePackagesFile"
  /\ Len(arg.blocks) = 2
  /\ arg.blocks[1] = MandatoryKeys \ {"Filename"}
  /\ arg.blocks[2] = MandatoryKeys
  /\ Len(result.value) = 1
  /\ result.value[1].name = <<Name(2)>>

\* ---------------------------------------------------------------- Depends values
\* the names of the entries, in the order of the value
EntryNames(entries) == [k \in 1..Len(entries) |-> entries[k].name]

\* C16: parseDependencies returns, for each entry of a Depends value other
\* than libc, the name before the parenthesized constraint, and never the
\* name libc, with or without a constraint on the libc entry.
C16_LibcNeverListed ==
  result.fn = "parseDependencies" =>
    /\ ~ includes(result.value, <<"libc">>)
    /\ Range(result.value) = Range(EntryNames(arg.entries)) \ {<<"libc">>}

\* C19: the dependency list of a record has no repeated name and keeps the
\* names in the order of their first occurrence in the source.
C19_DependsDeduplicated ==
  result.fn = "parseDependencies" =>
    /\ NoRepeats(result.value)
    /\ result.value = SelectSeq(SetFrom(EntryNames(arg.entries)),
                                LAMBDA n : includes(result.value, n))

\* ---------------------------------------------------------------- binary index
\* the comparator strings of the table
Comparators ==
  {<<"<">>, <<"<", "=">>, <<"<", "~">>, <<"~">>, <<"=">>, <<">", "=">>,
   <<">", "~">>, <<">">>, <<">", "<">>, <<>>}

\* a dependency object with a name whose match has the conflict bit
Conflicting(obj) ==
  obj.name # Unset /\ obj.match # Unset /\ hasBit(obj.match[1], OP.CONFLICT)

ConflictPrefixed ==
  result.fn = "dependencyToString" /\ Conflicting(result.obj) =>
    /\ Len(result.value) > 1
    /\ Head(result.value) = "!"
    /\ result.value[2] = result.obj.name[1][1]

\* C17 as stated: for each of the 32 bitmasks the rendered operator is one of
\* the comparator strings <, <=, <~, ~, =, >=, >~, >, >< or the empty string,
\* and a set conflict bit prefixes the rendered dependency with "!".
C17_FixedComparators ==
  /\ result.fn = "versionOpString" => result.value \in Comparators
  /\ ConflictPrefixed

\* the bitmasks of the table, the conflict bit left out
TableMasks ==
  {OP.LESS, OP.LESS + OP.EQUAL, OP.LESS + OP.EQUAL + OP.FUZZY, OP.EQUAL + OP.FUZZY,
   OP.FUZZY, OP.EQUAL, OP.GREATER + OP.EQUAL, OP.GREATER + OP.EQUAL + OP.FUZZY,
   OP.GREATER, OP.LESS + OP.GREATER, OP.EQUAL + OP.LESS + OP.GREATER}

\* C17 amended: for each of the 32 bitmasks the rendered operator is one of
\* the comparator strings when the bits other than conflict are a combination
\* of the table, and "?" for every other combination; a set conflict bit
\* prefixes the rendered dependency with "!".
C17_ComparatorOrUnknown ==
  /\ result.fn = "versionOpString" =>
       IF (result.op % OP.CONFLICT) \in TableMasks
       THEN result.value \in Comparators
       ELSE result.value = <<"?">>
  /\ ConflictPrefixed

\* a conflicting dependency whose bits are not of the table, rendered
C17_Witness ==
  /\ result.fn = "dependencyToString"
  /\ result.obj.match = <<OP.CONFLICT + OP.LESS + OP.FUZZY>>
  /\ result.obj.name # Unset
  /\ result.obj.version # Unset
  /\ result.value = <<"!">> \o result.obj.name[1] \o <<"?">> \o result.obj.version[1]

\* the names of the dependency objects of an array, libc left out
BareNames(arr) ==
  LET named == SelectSeq(nonZero(arr),
                         LAMBDA d : d.name # Unset /\ d.name[1] # <<"libc">>)
  IN  [i \in 1..Len(named) |-> named[i].name[1]]

\* the index is one package object with a depends array
OneDependentPackage ==
  Len(arg) = 1 /\ arg[1] # <<>> /\ arg[1][1].depends # Unset

\* C18: the dependency names of the record of a package are the bare names
\* of its dependency objects, for every match bitmask and version: version,
\* comparator and conflict marker are discarded.
C18_BareNameStored ==
  result.fn = "mapAdbPackages" /\ OneDependentPackage =>
    /\ Len(result.value) = 1
    /\ result.value[1].depends = <<BareNames(arg[1][1].depends[1])>>

\* the package objects with name, version and architecture, in array order
Complete(arr) ==
  SelectSeq(nonZero(arr),
            LAMBDA o : o.name # Unset /\ o.version # Unset /\ o.arch # Unset)

\* the record of a package object without dependencies
RecordOf(r, o) ==
  /\ r.name = o.name /\ r.version = o.version /\ r.architecture = o.arch
  /\ r.section = <<(<<>>)>>
  /\ r.filename = <<o.name[1] \o <<"_">> \o o.version[1] \o <<"_">> \o o.arch[1]
                     \o <<".apk">>>>
  /\ r.license = o.license /\ r.url = o.url
  /\ r.description = (IF o.description = Unset THEN <<(<<>>)>> ELSE o.description)
  /\ r.sha256sum = (IF o.hashes = Unset THEN <<(<<>>)>> ELSE o.hashes)
  /\ r.size = (IF o.fileSize = Unset THEN <<0>> ELSE o.fileSize)
  /\ r.installedSize = (IF o.installedSize = Unset THEN <<0>> ELSE o.installedSize)
  /\ o.depends = Unset => r.depends = <<(<<>>)>>
  /\ r.source = "base"

\* C20: mapAdbPackages emits one record for each package object behind a
\* non-zero tag that has name, version and architecture, in array order, and
\* none for the others; license and url stay unset when absent, the other
\* absent fields get their defaults, the section is empty and the filename is
\* {name}_{version}_{architecture}.apk.
C20_EmittedIffMandatory ==
  result.fn = "mapAdbPackages" =>
    /\ Len(result.value) = Len(Complete(arg))
    /\ \A k \in 1..Len(result.value) : RecordOf(result.value[k], Complete(arg)[k])

\* a zero tag and a package object of name, version and architecture alone
C20_Witness ==
  /\ result.fn = "mapAdbPackages"
  /\ Len(arg) = 2 /\ arg[1] = <<>> /\ arg[2] # <<>>
  /\ Len(result.value) = 1
  /\ result.value[1].license = Unset
  /\ result.value[1].filename = <<(<<"foo", "_", "1.0", "_", "mips", ".apk">>)>>

\* ---------------------------------------------------------------- container
\* C21: the block walk terminates.  Every round of the loop of parseADBBlocks
\* that does not return or throw moves the offset forward, so the walk ends
\* within the length of the buffer; and the no-payload-block error is thrown
\* only at the end of the buffer.
C21_BlockWalkAdvances ==
  [][(result.fn = "parseADBBlocks" /\ result.status = "walking") =>
       \/ result'.status = "walking" /\ result'.off > result.off
       \/ result'.status = "returned"
       \/ result'.status = "threw" /\
            (result'.error = "No ADB block found" => result.off >= arg.byteLength)]_vars

\* ---------------------------------------------------------------- tagged object reader
ReaderCalls == {"readInt", "readBlob", "readString", "readHex", "readObj"}

\* a slice that lies inside the payload and holds the bytes found there
InsidePayload(u8, read) ==
  /\ read.start + read.size <= Len(u8)
  /\ Len(read.bytes) = read.size
  /\ \A i \in 1..read.size : read.bytes[i] = u8[read.start + i]

\* C22: every dereference of a tag is bounds-checked.  Each read either
\* returns, every slice it took lying inside the payload and holding the
\* payload's bytes, or throws the out-of-bounds error; readObj of a tag that
\* is neither object nor array throws before it dereferences anything.
C22_ReadsInsidePayload ==
  result.fn \in ReaderCalls =>
    /\ \A k \in 1..Len(result.reads) : InsidePayload(arg.u8, result.reads[k])
    /\ result.status = "threw" =>
         \/ result.error = "Out-of-bounds deref"
         \/ /\ result.fn = "readObj"
            /\ arg.tag.type \notin {"OBJECT", "ARRAY"}
            /\ result.reads = <<>>
    /\ result.status = "returned" /\ result.fn = "readBlob" /\ result.reads # <<>> =>
         result.value = result.reads[Len(result.reads)].bytes

\* a blob whose length byte points past the end of the payload: the length
\* is read, the blob is refused
C22_Witness ==
  /\ result.fn = "readBlob"
  /\ arg.tag.type = "BLOB_8"
  /\ result.status = "threw"
  /\ Len(result.reads) = 1
  /\ result.reads[1].bytes = <<2>>
  /\ arg.tag.value + 1 + 2 > Len(arg.u8)

\* ---------------------------------------------------------------- envelope
\* the buffer starts with the four characters of head
HasHead(head) == Len(arg.u8) >= 4 /\ SubSeq(arg.u8, 1, 4) = head

\* the bytes of the buffer from position n + 1 on
After(n) == [i \in 1..(Len(arg.u8) - n) |-> arg.u8[n + i]]

\* the outcome is that of inflating the bytes after the first n and of
\* nothing else
InflatesAfter(outcome, n) ==
  /\ \A k \in 1..Len(outcome.attempts) : outcome.attempts[k].input = After(n)
  /\ outcome.status = "returned" => outcome.value.inflated = After(n)
  /\ arg.streams => outcome.attempts # <<>>

\* C23: envelope dispatch.  For an ADBc buffer algorithm 0 returns the bytes
\* after the 6-byte header unchanged, algorithm 1 inflates them, every other
\* algorithm throws without an attempt to decode; a buffer of another head
\* than ADBd and ADBc is returned unchanged; a buffer shorter than 4 bytes
\* throws.
C23_EnvelopeDispatch ==
  result.fn = "maybeDecompress" =>
    LET outcome == result.outcome
    IN  /\ Len(arg.u8) < 4 => outcome.status = "threw" /\ outcome.attempts = <<>>
        /\ HasHead(<<"A", "D", "B", "c">>) /\ Len(arg.u8) >= 6 =>
             /\ arg.u8[5] = "00" =>
                  /\ outcome.status = "returned"
                  /\ outcome.attempts = <<>>
                  /\ outcome.value = After(6)
             /\ arg.u8[5] = "01" => InflatesAfter(outcome, 6)
             /\ arg.u8[5] \notin {"00", "01"} =>
                  outcome.status = "threw" /\ outcome.attempts = <<>>
        /\ Len(arg.u8) >= 4 /\ ~ HasHead(<<"A", "D", "B", "c">>)
             /\ ~ HasHead(<<"A", "D", "B", "d">>) =>
             /\ outcome.status = "returned"
             /\ outcome.attempts = <<>>
             /\ outcome.value = arg.u8

\* an ADBc buffer of algorithm 0 with bytes after its header
C23_Witness ==
  /\ result.fn = "maybeDecompress"
  /\ HasHead(<<"A", "D", "B", "c">>)
  /\ Len(arg.u8) = 8
  /\ arg.u8[5] = "00"
  /\ result.outcome.value = <<arg.u8[7], arg.u8[8]>>

\* the formats attempted, in order
Formats(outcome) == [k \in 1..Len(outcome.attempts) |-> outcome.attempts[k].format]

\* the buffer is one that maybeDecompress inflates
Inflating ==
  \/ HasHead(<<"A", "D", "B", "d">>)
  \/ HasHead(<<"A", "D", "B", "c">>) /\ Len(arg.u8) >= 6 /\ arg.u8[5] = "01"

\* C25 as stated: inflating attempts raw deflate first and the zlib-wrapped
\* variant only after the raw attempt failed, and fails only if both fail.
C25_RawDeflateFirst ==
  result.fn = "maybeDecompress" /\ Inflating =>
    LET outcome == result.outcome
    IN  /\ Formats(outcome) \in {<<"deflate-raw">>, <<"deflate-raw", "deflate">>}
        /\ Len(outcome.attempts) = 2 <=> ~ arg.raw
        /\ outcome.status = "threw" <=> (~ arg.raw /\ ~ arg.zlib)

\* C25 amended: where DecompressionStream exists, inflating attempts the
\* zlib-wrapped variant ('deflate') first and raw deflate ('deflate-raw')
\* only after the zlib attempt failed, and fails only if both fail; where it
\* does not exist, inflating fails without an attempt.
C25_ZlibFirst ==
  result.fn = "maybeDecompress" /\ Inflating =>
    LET outcome == result.outcome
    IN  IF ~ arg.streams
        THEN outcome.status = "threw" /\ outcome.attempts = <<>>
        ELSE /\ Formats(outcome) \in {<<"deflate">>, <<"deflate", "deflate-raw">>}
             /\ Len(outcome.attempts) = 2 <=> ~ arg.zlib
             /\ outcome.status = "threw" <=> (~ arg.raw /\ ~ arg.zlib)
             /\ outcome.status = "returned" =>
                  outcome.value.format = Formats(outcome)[Len(outcome.attempts)]

\* an ADBd buffer of a raw stream: the zlib attempt fails, the raw one returns
C25_Witness ==
  /\ result.fn = "maybeDecompress"
  /\ HasHead(<<"A", "D", "B", "d">>)
  /\ arg.raw /\ ~ arg.zlib
  /\ Formats(result.outcome) = <<"deflate", "deflate-raw">>
  /\ result.outcome.status = "returned"

\* ---------------------------------------------------------------- feed resolution
\* the last element of a url
FileNameOf(url) == url[Len(url)]

\* the index file name of a version
ExpectedFileName(version) ==
  IF version = MainSnapshot THEN "packages.adb" ELSE "Packages"

\* url is the url of the feed called name
UrlOfFeed(url, name, target) ==
  CASE name \in Range(ARCHITECTURE_FEEDS) ->
         /\ includes(url, "/packages/")
         /\ ~ includes(url, "/targets/")
         /\ url[Len(url) - 2] = name
    [] name = "target-packages" ->
         /\ SubSeq(url, Len(url) - 3, Len(url) - 1) = <<"/targets/", target, "/packages/">>
    [] name = "kmods" ->
         /\ includes(url, "/targets/")
         /\ includes(url, "/kmods/")
    [] OTHER -> FALSE

\* C24: generateFeedUrls returns the urls of base, luci, packages and
\* telephony in this order, then the target-packages url exactly when a
\* target is given, then the kmods url of version-release-vermagic exactly
\* when target and kernel descriptor are given; every url ends in
\* packages.adb for a version of apk_versions and in Packages otherwise; and
\* every feed descriptor of loadPackagesForDevice has the url of its name.
C24_FeedResolution ==
  /\ result.fn = "generateFeedUrls" =>
       LET urls   == result.value
           kernel == result.kernelInfo
           names  == ARCHITECTURE_FEEDS
                     \o (IF arg.target # "" THEN <<"target-packages">> ELSE <<>>)
                     \o (IF arg.target # "" /\ kernel # NoKernel THEN <<"kmods">> ELSE <<>>)
       IN  /\ Len(urls) = Len(names)
           /\ \A i \in 1..Len(urls) :
                /\ UrlOfFeed(urls[i], names[i], arg.target)
                /\ FileNameOf(urls[i]) = ExpectedFileName(arg.version)
                /\ names[i] = "kmods" =>
                     SubSeq(urls[i], Len(urls[i]) - 6, Len(urls[i]) - 2)
                       = <<kernel.version, "-", kernel.release, "-", kernel.vermagic>>
  /\ \A i \in 1..Len(feeds) :
       /\ UrlOfFeed(feeds[i].url, feeds[i].name, arg.target)
       /\ FileNameOf(feeds[i].url) = ExpectedFileName(arg.version)

\* the six feeds of a target with a kernel descriptor, loaded for a release
C24_Witness ==
  /\ Len(feeds) = 6
  /\ feeds[5].name = "target-packages"
  /\ feeds[6].name = "kmods"
  /\ FileNameOf(feeds[6].url) = "Packages"
  /\ arg.version = BranchSnapshot

\* the base path of a url: the elements before the first of /packages/ and
\* /targets/, a closing "/" left out
RECURSIVE BasePath(_)
BasePath(url) ==
  IF Len(url) = 0 \/ url[1] \in {"/packages/", "/targets/", "/.overview.json"} THEN <<>>
  ELSE IF url = <<"/">> \/ (Len(url) > 1 /\ url[1] = "/" /\ BasePath(Tail(url)) = <<>>)
  THEN <<>>
  ELSE <<url[1]>> \o BasePath(Tail(url))

\* C30: for every version, branch snapshots included, the package feeds are
\* resolved under the base path (snapshots or releases/{version}) under which
\* the overview and the profile of that version are fetched.
C30_SameBasePath ==
  result.fn \in {"getProfiles", "getOverview"} =>
    \A kernelInfo \in {NoKernel, KernelOf("A")} :
      LET urls == generateFeedUrls(arg.version, arg.architecture, arg.target, kernelInfo)
      IN  \A i \in 1..Len(urls) : BasePath(urls[i]) = BasePath(result.value)

\* ---------------------------------------------------------------- selection: sets and status
\* C26: the added set and the removed set are disjoint in every state that
\* the mutations of the package store reach.
C26_AddedRemovedDisjoint ==
  Range(selectedPackages) \cap Range(removedPackages) = {}

\* C28: status and build list agree.  For every name n, getPackageStatus(n)
\* is 'default' or 'selected' exactly when n is in buildPackagesList, as
\* isPackageSelected(n) says, 'removed' exactly when "-"+n is in it, 'none'
\* exactly when neither is; and the list never holds both n and "-"+n.
C28_StatusMatchesBuildList ==
  \A n \in PkgNames :
    LET status == getPackageStatus(Sel, n)
        plain  == includes(buildPackagesList, n)
        dashed == includes(buildPackagesList, dashPrefix(n))
    IN  /\ status \in {"default", "selected"} <=> plain
        /\ isPackageSelected(Sel, n) <=> plain
        /\ status = "removed" <=> dashed
        /\ status = "none" <=> (~ plain /\ ~ dashed)
        /\ ~ (plain /\ dashed)

\* a removed default and an added name, the one dashed and the other plain
\* in the list
C28_Witness ==
  \E a, b \in PkgNames :
    /\ getPackageStatus(Sel, a) = "removed"
    /\ getPackageStatus(Sel, b) = "selected"
    /\ includes(buildPackagesList, dashPrefix(a))
    /\ includes(buildPackagesList, b)

\* ---------------------------------------------------------------- build request list
\* C27: in the package list sent with a build request a removed default
\* never appears unprefixed: for every name n, finalPackages does not
\* contain both n and "-"+n.
C27_RemovedNeverUnprefixed ==
  \A n \in PkgNames :
    ~ (includes(finalPackages, n) /\ includes(finalPackages, dashPrefix(n)))

\* ---------------------------------------------------------------- build polling
statusCalls(calls) == SelectSeq(calls, LAMBDA c : c.call = "getBuildStatus")

successes(events, hash) ==
  Len(SelectSeq(events, LAMBDA e : e.event = "build-success" /\ e.request_hash = <<hash>>))

\* C29: polling is quiescent after it stops.  While no interval timer is set,
\* the answer of a status request already in flight changes neither
\* buildStatus nor the emitted events, and build-success is emitted at most
\* once for each request hash.
C29_PollingQuiescent ==
  [][/\ (pollInterval = Null /\ Len(statusCalls(asuCalls')) < Len(statusCalls(asuCalls)))
          => (buildStatus' = buildStatus /\ emitted' = emitted)
     /\ \A hash \in Hashes : successes(emitted', hash) <= 1]_vars

====
